---- MODULE Spec2Model ----
(***************************************************************************)
(* Movement and collision core of the ebiten-platformer repository:        *)
(* level.Level (tile grid, CheckCollision) and entities.Player (Update,    *)
(* swept movement, coyote time, movement commands), and of its engine      *)
(* package: engine.StateManager (states, transitions, callbacks) and       *)
(* engine.AssetManager (image cache shared by goroutines).                 *)
(*                                                                         *)
(* float64 quantities are fixed-point integers:                            *)
(*   lengths and velocities in 1/Scale world units (per second),           *)
(*   durations in 1/TimeScale seconds.                                     *)
(* Products and quotients round toward zero (DivT); floor() of the source  *)
(* is \div.                                                                *)
(***************************************************************************)
EXTENDS Integers, Sequences, FiniteSets, TLC

VARIABLES
    tiles,      \* Level.Tiles: grid coordinate <<x, y>> -> Tile, the Empty tiles of NewLevel left out
    p,          \* the Player
    deltaTime,  \* RoboGame.deltaTime, the tick length handed to Player.Update
    box,        \* arguments of a direct Level.CheckCollision call
    result,     \* its CollisionResult
    op,         \* the operation that produced the current state
    ticks,      \* number of Player.Update calls so far
    sinceLeft,  \* tick time accumulated since the player left the ground without jumping (-1: n/a)
    groundJump, \* a Jump from the ground succeeded and the player has not landed since
    airJumps,   \* Jump calls that took effect since the player was last on the ground
    sm,         \* the StateManager
    callbackLog, \* the callbacks run by the last StateManager operation, in order
    args,       \* the arguments of the last operation that records them
    am,         \* the AssetManager: its cache, its RWMutex, the images created so far
    threads     \* the goroutines calling AssetManager.LoadImage: position, locals, return value

\* the variables of the engine package
engineVars == <<sm, callbackLog, args, am, threads>>

\* the variables of the level and the player
worldVars == <<tiles, p, deltaTime, box, result, ticks, sinceLeft, groundJump, airJumps>>

vars == <<tiles, p, deltaTime, box, result, op, ticks, sinceLeft, groundJump, airJumps,
          sm, callbackLog, args, am, threads>>

---------------------------------------------------------------------------
(* Fixed-point representation *)

Scale == 1000
TimeScale == 6000

Px(n) == n * Scale

Abs(a) == IF a < 0 THEN -a ELSE a
Min(a, b) == IF a < b THEN a ELSE b
Max(a, b) == IF a > b THEN a ELSE b

\* quotient rounded toward zero
DivT(a, b) == IF a >= 0 THEN a \div b ELSE -((-a) \div b)

\* value * duration rounded toward zero, value in 1/Scale units per second;
\* the product is taken in two parts to stay within 32-bit integers
TimesDt(v, dt) ==
    IF v >= 0
    THEN (v \div TimeScale) * dt + ((v % TimeScale) * dt) \div TimeScale
    ELSE -(((-v) \div TimeScale) * dt + (((-v) % TimeScale) * dt) \div TimeScale)

---------------------------------------------------------------------------
(* level/tile.go *)

TileEmpty == "TileEmpty"
TileSolid == "TileSolid"
TileClimbable == "TileClimbable"
TileSpike == "TileSpike"
TileOneWay == "TileOneWay"
TileTypes == {TileEmpty, TileSolid, TileClimbable, TileSpike, TileOneWay}

NewTile(tileType) ==
    [Type |-> tileType,
     Solid |-> tileType \in {TileSolid, TileClimbable, TileOneWay},
     Climbable |-> tileType = TileClimbable]

IsClimbable(t) == t.Climbable
\* variant: spikes block like solid tiles
IsSolidOrSpike(t) == t.Solid \/ t.Type = TileSpike

IsSolid(t) == t.Solid
IsDangerous(t) == t.Type = TileSpike
IsOneWay(t) == t.Type = TileOneWay

---------------------------------------------------------------------------
(* level/level.go *)

LevelWidth == 10
LevelHeight == 10
TileSize == 32
\* variant: no tolerance band above a tile's top
GroundToleranceNone == 0 * Scale

GroundTolerance == 2 * Scale

TilePx == TileSize * Scale

NewLevel == [c \in {} |-> NewTile(TileEmpty)]

\* variant: the bounds test admits the index one past the last row and column
IsValidCoordInclusive(x, y) == x >= 0 /\ x <= LevelWidth /\ y >= 0 /\ y <= LevelHeight

IsValidCoord(x, y) == x >= 0 /\ x < LevelWidth /\ y >= 0 /\ y < LevelHeight

\* the index range of Level.Tiles, as NewLevel allocates it
InTiles(x, y) == x \in 0..(LevelWidth - 1) /\ y \in 0..(LevelHeight - 1)

\* what indexing Level.Tiles outside that range gives: a runtime panic
IndexOutOfRange == [Type |-> "IndexOutOfRange", Solid |-> FALSE, Climbable |-> FALSE]

SetTile(ts, x, y, tileType) ==
    IF IsValidCoord(x, y) THEN (<<x, y>> :> NewTile(tileType)) @@ ts ELSE ts

GetTile(ts, x, y) ==
    IF IsValidCoord(x, y)
    THEN IF ~InTiles(x, y) THEN IndexOutOfRange
         ELSE IF <<x, y>> \in DOMAIN ts THEN ts[<<x, y>>] ELSE NewTile(TileEmpty)
    ELSE NewTile(TileEmpty)

GetTileAtWorldPos(ts, worldX, worldY) == GetTile(ts, worldX \div TilePx, worldY \div TilePx)

getTileBounds(tileX, tileY) ==
    [X |-> tileX * TilePx, Y |-> tileY * TilePx, Width |-> TilePx, Height |-> TilePx]

rectanglesOverlap(x1, y1, w1, h1, x2, y2, w2, h2) ==
    x1 < x2 + w2 /\ x1 + w1 > x2 /\ y1 < y2 + h2 /\ y1 + h1 > y2

\* variant: the span of the two intervals instead of their intersection
getOverlapXSpan(x1, w1, x2, w2) == Max(x1 + w1, x2 + w2) - Min(x1, x2)

getOverlapX(x1, w1, x2, w2) == Min(x1 + w1, x2 + w2) - Max(x1, x2)
getOverlapY(y1, h1, y2, h2) == Min(y1 + h1, y2 + h2) - Max(y1, y2)

NoCollision ==
    [Collided |-> FALSE, CollisionX |-> FALSE, CollisionY |-> FALSE,
     PenetrationX |-> 0, PenetrationY |-> 0, OnGround |-> FALSE,
     TouchingWall |-> FALSE, ClimbableSurface |-> FALSE,
     DangerousTile |-> FALSE, OneWayPlatform |-> FALSE]

\* the solid-tile branch of processCollision
processSolid(r, entityX, entityY, entityWidth, entityHeight, tb, overlapX, overlapY) ==
    LET entityBottom == entityY + entityHeight
        tileTop == tb.Y
        isOnGround == entityBottom >= tileTop /\ entityBottom <= tileTop + GroundTolerance
        entityCenterX == entityX + DivT(entityWidth, 2)
        r1 == IF isOnGround THEN [r EXCEPT !.OnGround = TRUE] ELSE r
        wallOnGround == overlapX * 4 > entityWidth * 3
                        /\ (entityCenterX < tb.X + Px(4) \/ entityCenterX > tb.X + tb.Width - Px(4))
        wallInAir == overlapX > Px(2) /\ (overlapX < overlapY \/ overlapY < Px(2))
        vertInAir == overlapY > Px(2) /\ (overlapY < overlapX \/ overlapX < Px(2))
        hitX(q) == [q EXCEPT !.TouchingWall = TRUE, !.CollisionX = TRUE, !.PenetrationX = overlapX]
        hitY(q) == [q EXCEPT !.CollisionY = TRUE, !.PenetrationY = overlapY]
    IN IF isOnGround
       THEN IF wallOnGround THEN hitX(r1) ELSE r1
       ELSE LET r2 == IF wallInAir THEN hitX(r1) ELSE r1
            IN IF vertInAir THEN hitY(r2) ELSE r2

\* variant: a one-way platform supports a box wherever the two overlap
processOneWayAnywhere(r, entityY, entityHeight, tb) ==
    [r EXCEPT !.OnGround = TRUE, !.OneWayPlatform = TRUE,
              !.CollisionY = TRUE, !.PenetrationY = entityY + entityHeight - tb.Y]

\* the one-way branch of processCollision
processOneWay(r, entityY, entityHeight, tb) ==
    LET entityBottom == entityY + entityHeight
        tileTop == tb.Y
    IN IF entityBottom >= tileTop /\ entityBottom <= tileTop + GroundTolerance
       THEN [r EXCEPT !.OnGround = TRUE, !.OneWayPlatform = TRUE,
                      !.CollisionY = TRUE, !.PenetrationY = entityBottom - tileTop]
       ELSE r

processCollision(r, tile, entityX, entityY, entityWidth, entityHeight, tb) ==
    LET overlapX == getOverlapX(entityX, entityWidth, tb.X, tb.Width)
        overlapY == getOverlapY(entityY, entityHeight, tb.Y, tb.Height)
        solid(r0) == IF IsSolid(tile)
                     THEN processSolid(r0, entityX, entityY, entityWidth, entityHeight,
                                       tb, overlapX, overlapY)
                     ELSE r0
        oneWay(r1) == IF IsOneWay(tile) THEN processOneWay(r1, entityY, entityHeight, tb) ELSE r1
        climbable(r2) == IF IsClimbable(tile) THEN [r2 EXCEPT !.ClimbableSurface = TRUE] ELSE r2
        dangerous(r3) == IF IsDangerous(tile) THEN [r3 EXCEPT !.DangerousTile = TRUE] ELSE r3
    IN dangerous(climbable(oneWay(solid([r EXCEPT !.Collided = TRUE]))))

\* the ground-contact branch for one tile of the row below the entity
groundContact(r, tile, entityX, entityY, entityWidth, entityHeight, tb) ==
    LET entityBottom == entityY + entityHeight
        tileTop == tb.Y
    IN IF entityBottom >= tileTop /\ entityBottom <= tileTop + GroundTolerance
          /\ entityX < tb.X + tb.Width /\ entityX + entityWidth > tb.X
       THEN [r EXCEPT !.Collided = TRUE,
                      !.OnGround = @ \/ IsSolid(tile) \/ IsOneWay(tile),
                      !.OneWayPlatform = @ \/ IsOneWay(tile),
                      !.ClimbableSurface = @ \/ IsClimbable(tile),
                      !.DangerousTile = @ \/ IsDangerous(tile)]
       ELSE r

RECURSIVE overlapLoop(_, _, _, _, _, _, _, _, _, _, _)
\* the loop over the overlapped tiles, rows top..bottom, columns left..right
overlapLoop(ts, r, tileY, tileX, leftTile, rightTile, bottomTile, entityX, entityY, entityWidth, entityHeight) ==
    IF tileY > bottomTile THEN r
    ELSE IF tileX > rightTile
    THEN overlapLoop(ts, r, tileY + 1, leftTile, leftTile, rightTile, bottomTile,
                     entityX, entityY, entityWidth, entityHeight)
    ELSE LET tile == GetTile(ts, tileX, tileY)
             tb == getTileBounds(tileX, tileY)
             r1 == IF tile.Type # TileEmpty
                      /\ rectanglesOverlap(entityX, entityY, entityWidth, entityHeight,
                                           tb.X, tb.Y, tb.Width, tb.Height)
                   THEN processCollision(r, tile, entityX, entityY, entityWidth, entityHeight, tb)
                   ELSE r
         IN overlapLoop(ts, r1, tileY, tileX + 1, leftTile, rightTile, bottomTile,
                        entityX, entityY, entityWidth, entityHeight)

RECURSIVE belowLoop(_, _, _, _, _, _, _, _, _)
\* the loop over the row directly below the entity
belowLoop(ts, r, tileX, rightTile, belowTile, entityX, entityY, entityWidth, entityHeight) ==
    IF tileX > rightTile THEN r
    ELSE LET tile == GetTile(ts, tileX, belowTile)
             tb == getTileBounds(tileX, belowTile)
             r1 == IF tile.Type # TileEmpty
                   THEN groundContact(r, tile, entityX, entityY, entityWidth, entityHeight, tb)
                   ELSE r
         IN belowLoop(ts, r1, tileX + 1, rightTile, belowTile, entityX, entityY, entityWidth, entityHeight)

CheckCollision(ts, entityX, entityY, entityWidth, entityHeight) ==
    LET leftTile == entityX \div TilePx
        rightTile == (entityX + entityWidth - Px(1)) \div TilePx
        topTile == entityY \div TilePx
        bottomTile == (entityY + entityHeight - Px(1)) \div TilePx
        belowTile == (entityY + entityHeight) \div TilePx
        below(r1) == IF belowTile > bottomTile
                     THEN belowLoop(ts, r1, leftTile, rightTile, belowTile,
                                    entityX, entityY, entityWidth, entityHeight)
                     ELSE r1
    IN below(overlapLoop(ts, NoCollision, topTile, leftTile, leftTile, rightTile, bottomTile,
                         entityX, entityY, entityWidth, entityHeight))

---------------------------------------------------------------------------
(* entities/player.go *)

BinarySearchMaxIterations == 50
BinarySearchMaxIterationsY == 30
BinarySearchTolerance == Scale \div 100
BinarySearchToleranceY == Scale \div 10

\* entities/animation.go: the AnimationState values and the controller's state
AnimationIdle == 0
AnimationWalk == 1
AnimationJump == 2
AnimationFall == 3
AnimationClimb == 4
AnimationDamage == 5

NewAnimationController == [currentState |-> 0, previousState |-> 0]

\* AnimationController.SetState
AnimationSetState(ac, state) ==
    IF state # ac.currentState
    THEN [ac EXCEPT !.previousState = ac.currentState, !.currentState = state]
    ELSE ac

NewPlayer(x, y) ==
    [X |-> x, Y |-> y, VelocityX |-> 0, VelocityY |-> 0,
     Width |-> Px(32), Height |-> Px(32),
     Speed |-> Px(120), JumpSpeed |-> Px(200), Gravity |-> Px(500),
     Friction |-> (8 * Scale) \div 10,
     OnGround |-> FALSE, FacingRight |-> TRUE, IsJumping |-> FALSE,
     IsMoving |-> FALSE, IsClimbing |-> FALSE, IsDamaged |-> FALSE,
     DamageTimer |-> 0, DamageTime |-> TimeScale,
     CoyoteTime |-> TimeScale \div 10, CoyoteTimer |-> 0,
     WasOnGroundPhysics |-> FALSE,
     AnimationController |-> AnimationSetState(NewAnimationController, AnimationIdle),
     level |-> FALSE]

\* SetLevel: the player holds the level (the tiles variable) as its CollisionChecker
SetLevel(q) == [q EXCEPT !.level = TRUE]

TakeDamage(q) ==
    IF ~q.IsDamaged
    THEN [q EXCEPT !.IsDamaged = TRUE, !.DamageTimer = q.DamageTime, !.VelocityX = 0]
    ELSE q

\* variant: MoveLeft without the damage guard
MoveLeftUnguarded(q) == [q EXCEPT !.VelocityX = -q.Speed, !.FacingRight = FALSE]

MoveLeft(q) ==
    IF ~q.IsDamaged THEN [q EXCEPT !.VelocityX = -q.Speed, !.FacingRight = FALSE] ELSE q

\* variant: MoveRight turns the player without moving it
MoveRightTurnOnly(q) == IF ~q.IsDamaged THEN [q EXCEPT !.FacingRight = TRUE] ELSE q

MoveRight(q) ==
    IF ~q.IsDamaged THEN [q EXCEPT !.VelocityX = q.Speed, !.FacingRight = TRUE] ELSE q

\* variant: a Jump that leaves the ground flag set
JumpKeepOnGround(q) ==
    IF (q.OnGround \/ q.CoyoteTimer > 0) /\ ~q.IsDamaged
    THEN [q EXCEPT !.VelocityY = -q.JumpSpeed, !.IsJumping = TRUE, !.CoyoteTimer = 0]
    ELSE q

\* variant: a Jump that leaves the coyote timer running
JumpKeepTimer(q) ==
    IF (q.OnGround \/ q.CoyoteTimer > 0) /\ ~q.IsDamaged
    THEN [q EXCEPT !.VelocityY = -q.JumpSpeed, !.IsJumping = TRUE, !.OnGround = FALSE]
    ELSE q

Jump(q) ==
    LET canJump == (q.OnGround \/ q.CoyoteTimer > 0) /\ ~q.IsDamaged
    IN IF canJump
       THEN [q EXCEPT !.VelocityY = -q.JumpSpeed, !.IsJumping = TRUE,
                      !.OnGround = FALSE, !.CoyoteTimer = 0]
       ELSE q

StartClimbing(q) ==
    IF ~q.IsDamaged
    THEN [q EXCEPT !.IsClimbing = TRUE, !.VelocityY = 0, !.Gravity = 0]
    ELSE q

StopClimbing(q) == [q EXCEPT !.IsClimbing = FALSE, !.Gravity = Px(500)]

ClimbUp(q) ==
    IF q.IsClimbing /\ ~q.IsDamaged
    THEN [q EXCEPT !.VelocityY = -DivT(q.Speed * 7, 10)]
    ELSE q

ClimbDown(q) ==
    IF q.IsClimbing /\ ~q.IsDamaged
    THEN [q EXCEPT !.VelocityY = DivT(q.Speed * 7, 10)]
    ELSE q

RECURSIVE searchRight(_, _, _, _, _, _)
\* binarySearchCollisionX, the loop for deltaX > 0
searchRight(ts, q, left, right, y, i) ==
    IF i >= BinarySearchMaxIterations THEN [pos |-> left, q |-> [q EXCEPT !.VelocityX = 0]]
    ELSE LET mid == (left + right) \div 2
         IN IF Abs(right - left) < BinarySearchTolerance
            THEN [pos |-> left, q |-> [q EXCEPT !.VelocityX = 0]]
            ELSE IF CheckCollision(ts, mid, y, q.Width, q.Height).CollisionX
                 THEN searchRight(ts, q, left, mid, y, i + 1)
                 ELSE searchRight(ts, q, mid, right, y, i + 1)

RECURSIVE searchLeft(_, _, _, _, _, _)
\* binarySearchCollisionX, the loop for deltaX <= 0
searchLeft(ts, q, left, right, y, i) ==
    IF i >= BinarySearchMaxIterations THEN [pos |-> right, q |-> [q EXCEPT !.VelocityX = 0]]
    ELSE LET mid == (left + right) \div 2
         IN IF Abs(right - left) < BinarySearchTolerance
            THEN [pos |-> right, q |-> [q EXCEPT !.VelocityX = 0]]
            ELSE IF CheckCollision(ts, mid, y, q.Width, q.Height).CollisionX
                 THEN searchLeft(ts, q, mid, right, y, i + 1)
                 ELSE searchLeft(ts, q, left, mid, y, i + 1)

binarySearchCollisionX(ts, q, startX, y, deltaX) ==
    IF deltaX > 0
    THEN searchRight(ts, q, startX, startX + deltaX, y, 0)
    ELSE searchLeft(ts, q, startX, startX + deltaX, y, 0)

sweptHorizontalMovement(ts, q, startX, y, deltaX) ==
    LET targetX == startX + deltaX
    IN IF ~CheckCollision(ts, targetX, y, q.Width, q.Height).CollisionX
       THEN [pos |-> targetX, q |-> q]
       ELSE binarySearchCollisionX(ts, q, startX, y, deltaX)

RECURSIVE searchDown(_, _, _, _, _, _, _)
\* binarySearchCollisionY, the loop for deltaY > 0; yields bestValidY
searchDown(ts, q, x, left, right, bestValidY, i) ==
    IF i >= BinarySearchMaxIterationsY \/ Abs(right - left) < BinarySearchToleranceY
    THEN bestValidY
    ELSE LET mid == (left + right) \div 2
             blocked(r) == r.CollisionY \/ r.OnGround
         IN IF blocked(CheckCollision(ts, x, mid, q.Width, q.Height))
            THEN searchDown(ts, q, x, left, mid, bestValidY, i + 1)
            ELSE searchDown(ts, q, x, mid, right, mid, i + 1)

RECURSIVE groundScan(_, _, _, _, _)
\* binarySearchCollisionY, the scan of offsets 0.0, 0.1, ... 1.0 below finalY
groundScan(ts, q, x, finalY, k) ==
    IF k > 10 THEN [pos |-> finalY, q |-> q]
    ELSE LET testY == finalY + k * (Scale \div 10)
             test(r) ==
                 IF r.OnGround \/ r.CollisionY
                 THEN [pos |-> testY,
                       q |-> [q EXCEPT !.OnGround = IF r.OnGround THEN TRUE ELSE @,
                                       !.IsJumping = IF r.OnGround THEN FALSE ELSE @,
                                       !.VelocityY = 0]]
                 ELSE groundScan(ts, q, x, finalY, k + 1)
         IN test(CheckCollision(ts, x, testY, q.Width, q.Height))

RECURSIVE searchUp(_, _, _, _, _, _)
\* binarySearchCollisionY, the loop for deltaY <= 0; yields right
searchUp(ts, q, x, left, right, i) ==
    IF i >= BinarySearchMaxIterationsY \/ Abs(right - left) < BinarySearchToleranceY
    THEN right
    ELSE LET mid == (left + right) \div 2
         IN IF CheckCollision(ts, x, mid, q.Width, q.Height).CollisionY
            THEN searchUp(ts, q, x, mid, right, i + 1)
            ELSE searchUp(ts, q, x, left, mid, i + 1)

binarySearchCollisionY(ts, q, x, startY, deltaY) ==
    IF deltaY > 0
    THEN groundScan(ts, q, x, searchDown(ts, q, x, startY, startY + deltaY, startY, 0), 0)
    ELSE [pos |-> searchUp(ts, q, x, startY + deltaY, startY, 0),
          q |-> [q EXCEPT !.VelocityY = 0]]

\* variant: the vertical move always takes the full step
sweptVerticalMovementFullStep(ts, q, x, startY, deltaY) ==
    [pos |-> startY + deltaY, q |-> q]

sweptVerticalMovement(ts, q, x, startY, deltaY) ==
    LET targetY == startY + deltaY
        free(r) == ~r.CollisionY /\ ~r.OnGround
    IN IF free(CheckCollision(ts, x, targetY, q.Width, q.Height))
       THEN [pos |-> targetY, q |-> q]
       ELSE binarySearchCollisionY(ts, q, x, startY, deltaY)

\* variant: the vertical movement is resolved first, at the original X, and
\* the horizontal one at the corrected Y
performSweptMovementVerticalFirst(ts, q, startX, startY, deltaX, deltaY) ==
    IF ~q.level THEN [q EXCEPT !.X = startX + deltaX, !.Y = startY + deltaY]
    ELSE LET final(v, h) == [h.q EXCEPT !.X = h.pos, !.Y = v.pos]
             horizontal(v) ==
                 final(v, IF deltaX # 0
                          THEN sweptHorizontalMovement(ts, v.q, startX, v.pos, deltaX)
                          ELSE [pos |-> startX, q |-> v.q])
         IN horizontal(IF deltaY # 0
                       THEN sweptVerticalMovement(ts, q, startX, startY, deltaY)
                       ELSE [pos |-> startY, q |-> q])

\* yields the player with X, Y at the final position and the flags the searches set
performSweptMovement(ts, q, startX, startY, deltaX, deltaY) ==
    IF ~q.level THEN [q EXCEPT !.X = startX + deltaX, !.Y = startY + deltaY]
    ELSE LET final(h, v) == [v.q EXCEPT !.X = h.pos, !.Y = v.pos]
             vertical(h) ==
                 final(h, IF deltaY # 0
                          THEN sweptVerticalMovement(ts, h.q, h.pos, startY, deltaY)
                          ELSE [pos |-> startY, q |-> h.q])
         IN vertical(IF deltaX # 0
                     THEN sweptHorizontalMovement(ts, q, startX, startY, deltaX)
                     ELSE [pos |-> startX, q |-> q])

\* The contact queries a movement makes, in the order it makes them, each as
\* the position <<x, y>> of the box it asks about.

\* variant: the bracket never narrows, and the loop for deltaX > 0 asks about
\* the same midpoint for twice the iteration cap
searchRightQueriesUncapped(ts, q, left, right, y, i) ==
    [k \in 1..(2 * BinarySearchMaxIterations) |-> <<(left + right) \div 2, y>>]

RECURSIVE searchRightQueries(_, _, _, _, _, _)
\* binarySearchCollisionX, the loop for deltaX > 0
searchRightQueries(ts, q, left, right, y, i) ==
    IF i >= BinarySearchMaxIterations \/ Abs(right - left) < BinarySearchTolerance THEN <<>>
    ELSE LET mid == (left + right) \div 2
         IN <<<<mid, y>>>> \o (IF CheckCollision(ts, mid, y, q.Width, q.Height).CollisionX
                               THEN searchRightQueries(ts, q, left, mid, y, i + 1)
                               ELSE searchRightQueries(ts, q, mid, right, y, i + 1))

RECURSIVE searchLeftQueries(_, _, _, _, _, _)
\* binarySearchCollisionX, the loop for deltaX <= 0
searchLeftQueries(ts, q, left, right, y, i) ==
    IF i >= BinarySearchMaxIterations \/ Abs(right - left) < BinarySearchTolerance THEN <<>>
    ELSE LET mid == (left + right) \div 2
         IN <<<<mid, y>>>> \o (IF CheckCollision(ts, mid, y, q.Width, q.Height).CollisionX
                               THEN searchLeftQueries(ts, q, mid, right, y, i + 1)
                               ELSE searchLeftQueries(ts, q, left, mid, y, i + 1))

sweptHorizontalMovementQueries(ts, q, startX, y, deltaX) ==
    <<<<startX + deltaX, y>>>>
        \o (IF ~CheckCollision(ts, startX + deltaX, y, q.Width, q.Height).CollisionX THEN <<>>
            ELSE IF deltaX > 0 THEN searchRightQueries(ts, q, startX, startX + deltaX, y, 0)
            ELSE searchLeftQueries(ts, q, startX, startX + deltaX, y, 0))

RECURSIVE searchDownQueries(_, _, _, _, _, _)
\* binarySearchCollisionY, the loop for deltaY > 0
searchDownQueries(ts, q, x, left, right, i) ==
    IF i >= BinarySearchMaxIterationsY \/ Abs(right - left) < BinarySearchToleranceY THEN <<>>
    ELSE LET mid == (left + right) \div 2
             blocked(r) == r.CollisionY \/ r.OnGround
         IN <<<<x, mid>>>> \o (IF blocked(CheckCollision(ts, x, mid, q.Width, q.Height))
                               THEN searchDownQueries(ts, q, x, left, mid, i + 1)
                               ELSE searchDownQueries(ts, q, x, mid, right, i + 1))

RECURSIVE groundScanQueries(_, _, _, _, _)
\* binarySearchCollisionY, the scan of offsets 0.0, 0.1, ... 1.0 below finalY
groundScanQueries(ts, q, x, finalY, k) ==
    IF k > 10 THEN <<>>
    ELSE LET testY == finalY + k * (Scale \div 10)
             found(r) == r.OnGround \/ r.CollisionY
         IN <<<<x, testY>>>> \o (IF found(CheckCollision(ts, x, testY, q.Width, q.Height))
                                 THEN <<>>
                                 ELSE groundScanQueries(ts, q, x, finalY, k + 1))

RECURSIVE searchUpQueries(_, _, _, _, _, _)
\* binarySearchCollisionY, the loop for deltaY <= 0
searchUpQueries(ts, q, x, left, right, i) ==
    IF i >= BinarySearchMaxIterationsY \/ Abs(right - left) < BinarySearchToleranceY THEN <<>>
    ELSE LET mid == (left + right) \div 2
         IN <<<<x, mid>>>> \o (IF CheckCollision(ts, x, mid, q.Width, q.Height).CollisionY
                               THEN searchUpQueries(ts, q, x, mid, right, i + 1)
                               ELSE searchUpQueries(ts, q, x, left, mid, i + 1))

binarySearchCollisionYQueries(ts, q, x, startY, deltaY) ==
    IF deltaY > 0
    THEN searchDownQueries(ts, q, x, startY, startY + deltaY, 0)
             \o groundScanQueries(ts, q, x,
                                  searchDown(ts, q, x, startY, startY + deltaY, startY, 0), 0)
    ELSE searchUpQueries(ts, q, x, startY + deltaY, startY, 0)

sweptVerticalMovementQueries(ts, q, x, startY, deltaY) ==
    LET free(r) == ~r.CollisionY /\ ~r.OnGround
    IN <<<<x, startY + deltaY>>>>
           \o (IF free(CheckCollision(ts, x, startY + deltaY, q.Width, q.Height)) THEN <<>>
               ELSE binarySearchCollisionYQueries(ts, q, x, startY, deltaY))

\* the queries of performSweptMovement as two sequences, one for each axis
performSweptMovementQueries(ts, q, startX, startY, deltaX, deltaY) ==
    IF ~q.level THEN [horizontal |-> <<>>, vertical |-> <<>>]
    ELSE [horizontal |-> IF deltaX # 0
                         THEN sweptHorizontalMovementQueries(ts, q, startX, startY, deltaX)
                         ELSE <<>>,
          vertical |-> IF deltaY # 0
                       THEN sweptVerticalMovementQueries(
                                ts, q,
                                IF deltaX # 0
                                THEN sweptHorizontalMovement(ts, q, startX, startY, deltaX).pos
                                ELSE startX,
                                startY, deltaY)
                       ELSE <<>>]

SimpleGroundY == 300

updateSimplePhysics(q, deltaX, deltaY) ==
    LET q1 == [q EXCEPT !.X = @ + deltaX, !.Y = @ + deltaY]
    IN IF q1.Y >= Px(SimpleGroundY)
       THEN [q1 EXCEPT !.Y = Px(SimpleGroundY), !.VelocityY = 0,
                       !.OnGround = TRUE, !.IsJumping = FALSE]
       ELSE [q1 EXCEPT !.OnGround = FALSE]

\* the part of updatePhysics after the swept movement: final check, ground state, hazards
settleGround(ts, q, prevOnGround) ==
    LET landed(r) ==
            IF r.OnGround /\ ~q.OnGround
            THEN [q EXCEPT !.OnGround = TRUE, !.IsJumping = FALSE,
                           !.VelocityY = IF @ > 0 THEN 0 ELSE @]
            ELSE q
        hysteresis(r, q1) ==
            IF ~r.OnGround /\ ~r.CollisionY
            THEN [q1 EXCEPT !.OnGround = prevOnGround
                                         /\ Abs(q1.VelocityY) < Scale \div 2
                                         /\ Abs(q1.VelocityX) < Px(5)]
            ELSE q1
        hazard(r, q2) == IF r.DangerousTile /\ ~q2.IsDamaged THEN TakeDamage(q2) ELSE q2
        settle(r) == hazard(r, hysteresis(r, landed(r)))
    IN settle(CheckCollision(ts, q.X, q.Y, q.Width, q.Height))

\* variant: friction acts on the ground only
updatePhysicsGroundFriction(ts, q, dt) ==
    LET prevX == q.X
        prevY == q.Y
        gravity(q0) ==
            IF ~q0.OnGround THEN [q0 EXCEPT !.VelocityY = @ + TimesDt(q0.Gravity, dt)] ELSE q0
        friction(q1) ==
            IF q.OnGround THEN [q1 EXCEPT !.VelocityX = DivT(@ * q1.Friction, Scale)] ELSE q1
        moving(q2) == [q2 EXCEPT !.IsMoving = Abs(q2.VelocityX) > Px(10)]
        move(q3, deltaX, deltaY) ==
            IF ~q3.level
            THEN updateSimplePhysics(q3, deltaX, deltaY)
            ELSE settleGround(ts,
                              performSweptMovement(ts, [q3 EXCEPT !.OnGround = FALSE],
                                                   prevX, prevY, deltaX, deltaY),
                              q3.OnGround)
        intended(q3) == move(q3, TimesDt(q3.VelocityX, dt), TimesDt(q3.VelocityY, dt))
    IN intended(moving(friction(gravity(q))))

updatePhysics(ts, q, dt) ==
    LET prevX == q.X
        prevY == q.Y
        gravity(q0) ==
            IF ~q0.OnGround THEN [q0 EXCEPT !.VelocityY = @ + TimesDt(q0.Gravity, dt)] ELSE q0
        friction(q1) == [q1 EXCEPT !.VelocityX = DivT(@ * q1.Friction, Scale)]
        moving(q2) == [q2 EXCEPT !.IsMoving = Abs(q2.VelocityX) > Px(10)]
        move(q3, deltaX, deltaY) ==
            IF ~q3.level
            THEN updateSimplePhysics(q3, deltaX, deltaY)
            ELSE settleGround(ts,
                              performSweptMovement(ts, [q3 EXCEPT !.OnGround = FALSE],
                                                   prevX, prevY, deltaX, deltaY),
                              q3.OnGround)
        intended(q3) == move(q3, TimesDt(q3.VelocityX, dt), TimesDt(q3.VelocityY, dt))
    IN intended(moving(friction(gravity(q))))

\* variant: the coyote timer is armed and never counted down
updateCoyoteTimeNoCountdown(q, dt) ==
    LET q1 == IF q.WasOnGroundPhysics /\ ~q.OnGround /\ ~q.IsJumping /\ q.CoyoteTimer <= 0
              THEN [q EXCEPT !.CoyoteTimer = q.CoyoteTime]
              ELSE q
        q3 == IF q1.OnGround /\ q1.VelocityY >= 0 THEN [q1 EXCEPT !.CoyoteTimer = 0] ELSE q1
    IN [q3 EXCEPT !.WasOnGroundPhysics = q3.OnGround]

\* variant: the coyote timer is armed by any departure from the ground
updateCoyoteTimeAnyDeparture(q, dt) ==
    LET q1 == IF q.WasOnGroundPhysics /\ ~q.OnGround /\ q.CoyoteTimer <= 0
              THEN [q EXCEPT !.CoyoteTimer = q.CoyoteTime]
              ELSE q
        q2 == IF q1.CoyoteTimer > 0
              THEN [q1 EXCEPT !.CoyoteTimer = Max(@ - dt, 0)]
              ELSE q1
        q3 == IF q2.OnGround /\ q2.VelocityY >= 0 THEN [q2 EXCEPT !.CoyoteTimer = 0] ELSE q2
    IN [q3 EXCEPT !.WasOnGroundPhysics = q3.OnGround]

\* variant: the timer is left to run out after a landing
updateCoyoteTimeNoReset(q, dt) ==
    LET q1 == IF q.WasOnGroundPhysics /\ ~q.OnGround /\ ~q.IsJumping /\ q.CoyoteTimer <= 0
              THEN [q EXCEPT !.CoyoteTimer = q.CoyoteTime]
              ELSE q
        q2 == IF q1.CoyoteTimer > 0
              THEN [q1 EXCEPT !.CoyoteTimer = Max(@ - dt, 0)]
              ELSE q1
    IN [q2 EXCEPT !.WasOnGroundPhysics = q2.OnGround]

\* variant: the countdown is not stopped at zero
updateCoyoteTimeNoClamp(q, dt) ==
    LET q1 == IF q.WasOnGroundPhysics /\ ~q.OnGround /\ ~q.IsJumping /\ q.CoyoteTimer <= 0
              THEN [q EXCEPT !.CoyoteTimer = q.CoyoteTime]
              ELSE q
        q2 == IF q1.CoyoteTimer > 0
              THEN [q1 EXCEPT !.CoyoteTimer = @ - dt]
              ELSE q1
        q3 == IF q2.OnGround /\ q2.VelocityY >= 0 THEN [q2 EXCEPT !.CoyoteTimer = 0] ELSE q2
    IN [q3 EXCEPT !.WasOnGroundPhysics = q3.OnGround]

updateCoyoteTime(q, dt) ==
    LET q1 == IF q.WasOnGroundPhysics /\ ~q.OnGround /\ ~q.IsJumping /\ q.CoyoteTimer <= 0
              THEN [q EXCEPT !.CoyoteTimer = q.CoyoteTime]
              ELSE q
        q2 == IF q1.CoyoteTimer > 0
              THEN [q1 EXCEPT !.CoyoteTimer = Max(@ - dt, 0)]
              ELSE q1
        q3 == IF q2.OnGround /\ q2.VelocityY >= 0 THEN [q2 EXCEPT !.CoyoteTimer = 0] ELSE q2
    IN [q3 EXCEPT !.WasOnGroundPhysics = q3.OnGround]

\* variant: the damaged flag is cleared by every tick, whatever the timer
updateDamageTimerClearsEarly(q, dt) ==
    IF q.DamageTimer > 0
    THEN [q EXCEPT !.DamageTimer = @ - dt, !.IsDamaged = FALSE]
    ELSE q

\* variant: the damaged flag outlives a timer that stops at exactly zero
updateDamageTimerStrict(q, dt) ==
    IF q.DamageTimer > 0
    THEN [q EXCEPT !.DamageTimer = @ - dt,
                   !.IsDamaged = IF q.DamageTimer - dt < 0 THEN FALSE ELSE @]
    ELSE q

updateDamageTimer(q, dt) ==
    IF q.DamageTimer > 0
    THEN [q EXCEPT !.DamageTimer = @ - dt,
                   !.IsDamaged = IF q.DamageTimer - dt <= 0 THEN FALSE ELSE @]
    ELSE q

\* variant: the airborne test comes first
updateAnimationStateAirborneFirst(q) ==
    [q EXCEPT !.AnimationController =
        AnimationSetState(@, IF ~q.OnGround
                             THEN (IF q.VelocityY < 0 THEN AnimationJump ELSE AnimationFall)
                             ELSE IF q.IsDamaged THEN AnimationDamage
                             ELSE IF q.IsClimbing THEN AnimationClimb
                             ELSE IF q.IsMoving THEN AnimationWalk
                             ELSE AnimationIdle)]

updateAnimationState(q) ==
    [q EXCEPT !.AnimationController =
        AnimationSetState(@, IF q.IsDamaged THEN AnimationDamage
                             ELSE IF q.IsClimbing THEN AnimationClimb
                             ELSE IF ~q.OnGround
                             THEN (IF q.VelocityY < 0 THEN AnimationJump ELSE AnimationFall)
                             ELSE IF q.IsMoving THEN AnimationWalk
                             ELSE AnimationIdle)]

GetAnimationState(q) == q.AnimationController.currentState

\* Player.Update; the frames of the animations are not modelled
Update(ts, q, dt) ==
    updateAnimationState(updateCoyoteTime(updatePhysics(ts, updateDamageTimer(q, dt), dt), dt))

---------------------------------------------------------------------------
(* engine/game.go: StateManager *)

StateLoading == "StateLoading"
StateMenu == "StateMenu"
StatePlaying == "StatePlaying"
StatePaused == "StatePaused"
StateGameOver == "StateGameOver"
StateSettings == "StateSettings"
StateTransition == "StateTransition"
GameStates == {StateLoading, StateMenu, StatePlaying, StatePaused, StateGameOver,
               StateSettings, StateTransition}

\* a callback map without entries
NoCallbacks == [state \in {} |-> 0]

\* callbacks are told apart by a number; the three maps go from state to callback
NewStateManager(initialState) ==
    [currentState |-> initialState,
     previousState |-> initialState,
     targetState |-> initialState,
     isTransitioning |-> FALSE,
     transitionTime |-> 0,
     maxTransitionTime |-> 0,
     onEnterCallbacks |-> NoCallbacks,
     onExitCallbacks |-> NoCallbacks,
     onUpdateCallbacks |-> NoCallbacks]

GetCurrentState(s) == s.currentState
GetPreviousState(s) == s.previousState
IsTransitioning(s) == s.isTransitioning

\* in 1/Scale; the quotient of the source rounded down
GetTransitionProgress(s) ==
    IF ~s.isTransitioning \/ s.maxTransitionTime = 0
    THEN Scale
    ELSE (s.transitionTime * Scale) \div s.maxTransitionTime

\* "if callback, exists := callbacks[state]; exists { callback() }": the call made,
\* with the state the manager is in while the callback runs
Called(event, callbacks, state, current) ==
    IF state \in DOMAIN callbacks
    THEN <<[event |-> event, state |-> state, callback |-> callbacks[state], current |-> current]>>
    ELSE <<>>

\* variant: the enter callback runs before the state is changed
completeTransitionEnterFirst(s) ==
    [sm |-> [s EXCEPT !.currentState = s.targetState, !.isTransitioning = FALSE,
                      !.transitionTime = 0],
     calls |-> Called("enter", s.onEnterCallbacks, s.targetState, s.currentState)
                   \o Called("exit", s.onExitCallbacks, s.previousState, s.currentState)]

\* the manager after the transition, and the callbacks run
completeTransition(s) ==
    [sm |-> [s EXCEPT !.currentState = s.targetState, !.isTransitioning = FALSE,
                      !.transitionTime = 0],
     calls |-> Called("exit", s.onExitCallbacks, s.previousState, s.currentState)
                   \o Called("enter", s.onEnterCallbacks, s.targetState, s.targetState)]

\* variant: a transition to the current state is carried out like any other
TransitionToAlways(s, newState, duration) ==
    IF duration > 0
    THEN [sm |-> [s EXCEPT !.previousState = s.currentState, !.targetState = newState,
                           !.maxTransitionTime = duration, !.transitionTime = 0,
                           !.isTransitioning = TRUE, !.currentState = StateTransition],
          calls |-> <<>>]
    ELSE completeTransition([s EXCEPT !.previousState = s.currentState,
                                      !.targetState = newState,
                                      !.maxTransitionTime = duration,
                                      !.transitionTime = 0])

TransitionTo(s, newState, duration) ==
    IF s.currentState = newState
    THEN [sm |-> s, calls |-> <<>>]
    ELSE IF duration > 0
         THEN [sm |-> [s EXCEPT !.previousState = s.currentState, !.targetState = newState,
                                !.maxTransitionTime = duration, !.transitionTime = 0,
                                !.isTransitioning = TRUE, !.currentState = StateTransition],
               calls |-> <<>>]
         ELSE completeTransition([s EXCEPT !.previousState = s.currentState,
                                           !.targetState = newState,
                                           !.maxTransitionTime = duration,
                                           !.transitionTime = 0])

SetState(s, newState) == TransitionTo(s, newState, 0)

\* variant: a transition completes only when the accumulated time exceeds its duration
StateManagerUpdateLate(s, dt) ==
    LET withUpdate(r) ==
            [sm |-> r.sm,
             calls |-> r.calls \o Called("update", r.sm.onUpdateCallbacks,
                                         r.sm.currentState, r.sm.currentState)]
    IN IF s.isTransitioning
       THEN IF s.transitionTime + dt > s.maxTransitionTime
            THEN withUpdate(completeTransition([s EXCEPT !.transitionTime = @ + dt]))
            ELSE withUpdate([sm |-> [s EXCEPT !.transitionTime = @ + dt], calls |-> <<>>])
       ELSE withUpdate([sm |-> s, calls |-> <<>>])

\* StateManager.Update; the error returned by the update callback is not kept
StateManagerUpdate(s, dt) ==
    LET withUpdate(r) ==
            [sm |-> r.sm,
             calls |-> r.calls \o Called("update", r.sm.onUpdateCallbacks,
                                         r.sm.currentState, r.sm.currentState)]
    IN IF s.isTransitioning
       THEN IF s.transitionTime + dt >= s.maxTransitionTime
            THEN withUpdate(completeTransition([s EXCEPT !.transitionTime = @ + dt]))
            ELSE withUpdate([sm |-> [s EXCEPT !.transitionTime = @ + dt], calls |-> <<>>])
       ELSE withUpdate([sm |-> s, calls |-> <<>>])

\* variant: a callback already registered for the state is kept
RegisterOnEnterKeepFirst(s, state, callback) ==
    [s EXCEPT !.onEnterCallbacks = @ @@ (state :> callback)]

RegisterOnEnter(s, state, callback) ==
    [s EXCEPT !.onEnterCallbacks = (state :> callback) @@ @]
RegisterOnExit(s, state, callback) ==
    [s EXCEPT !.onExitCallbacks = (state :> callback) @@ @]
RegisterOnUpdate(s, state, callback) ==
    [s EXCEPT !.onUpdateCallbacks = (state :> callback) @@ @]

---------------------------------------------------------------------------
(* engine/assets.go: AssetManager *)

\* images: path -> image; mu: the number of read locks held and whether the
\* write lock is held; created: the images made by ebiten.NewImageFromImage
NewAssetManager ==
    [images |-> [path \in {} |-> 0], readers |-> 0, writer |-> FALSE, created |-> 0]

GetLoadedImageCount(a) == Cardinality(DOMAIN a.images)

\* no goroutine has been started
NoThreads == [t \in {} |-> 0]

\* the manager and the cache as their constructors leave them
EngineIdle ==
    /\ sm = NewStateManager(StateLoading)
    /\ callbackLog = <<>>
    /\ args = <<>>
    /\ am = NewAssetManager
    /\ threads = NoThreads

---------------------------------------------------------------------------
(* Scenarios: levels and starting positions taken from the repository's tests *)

\* bound on the Player.Update calls of the scenarios that take commands
MaxTicks == 8

Commands == {"MoveLeft", "MoveRight", "Jump", "StartClimbing", "StopClimbing",
             "ClimbUp", "ClimbDown", "TakeDamage"}

NoBox == [X |-> 0, Y |-> 0, Width |-> 0, Height |-> 0]

\* RoboGame.deltaTime at 60 ticks per second
Dt60 == TimeScale \div 60

\* the single-tile platform of TestHighSpeedCollision: tile (2,5), world (64,160)-(96,192)
PlatformLevel == SetTile(NewLevel, 2, 5, TileSolid)
PlatformTop == 5 * TilePx

\* the player is above the bottom of the level's world bounds
InWorld(q) == q.Y <= LevelHeight * TilePx

\* Player.Update(deltaTime), with the bookkeeping of the observers
TickBody ==
    /\ p' = Update(tiles, p, deltaTime)
    /\ op' = "Update"
    /\ sinceLeft' = IF p'.OnGround THEN -1
                    ELSE IF p.OnGround THEN deltaTime
                    ELSE IF sinceLeft >= 0 THEN sinceLeft + deltaTime
                    ELSE -1
    /\ groundJump' = (groundJump /\ ~p'.OnGround)
    /\ airJumps' = IF p'.OnGround THEN 0 ELSE airJumps
    /\ UNCHANGED <<tiles, deltaTime, box, result, engineVars>>

\* a tick of the free-running game
Tick ==
    /\ InWorld(p)
    /\ TickBody
    /\ UNCHANGED ticks

\* a tick of a bounded scenario
CountedTick ==
    /\ ticks < MaxTicks
    /\ TickBody
    /\ ticks' = ticks + 1

\* a command that is not Jump
Command(name, q) ==
    /\ p' = q
    /\ op' = name
    /\ UNCHANGED <<tiles, deltaTime, box, result, ticks, sinceLeft, groundJump, airJumps, engineVars>>

DoMoveLeft == Command("MoveLeft", MoveLeft(p))
DoMoveRight == Command("MoveRight", MoveRight(p))
DoStartClimbing == Command("StartClimbing", StartClimbing(p))
DoStopClimbing == Command("StopClimbing", StopClimbing(p))
DoClimbUp == Command("ClimbUp", ClimbUp(p))
DoClimbDown == Command("ClimbDown", ClimbDown(p))
DoTakeDamage == Command("TakeDamage", TakeDamage(p))

DoJump ==
    LET q == Jump(p)
        jumped == q.IsJumping /\ q.VelocityY = -p.JumpSpeed /\ q # p
    IN /\ p' = q
       /\ op' = "Jump"
       /\ sinceLeft' = IF jumped THEN -1 ELSE sinceLeft
       /\ groundJump' = IF jumped THEN p.OnGround ELSE groundJump
       /\ airJumps' = IF jumped THEN (IF p.OnGround THEN 1 ELSE airJumps + 1) ELSE airJumps
       /\ UNCHANGED <<tiles, deltaTime, box, result, ticks, engineVars>>

\* a direct call of Level.CheckCollision on the box of the scenario
Query ==
    /\ result' = CheckCollision(tiles, box.X, box.Y, box.Width, box.Height)
    /\ op' = "CheckCollision"
    /\ UNCHANGED <<tiles, p, deltaTime, box, ticks, sinceLeft, groundJump, airJumps, engineVars>>

InitWith(ts, q, dt, b) ==
    /\ tiles = ts
    /\ p = q
    /\ deltaTime = dt
    /\ box = b
    /\ result = NoCollision
    /\ op = "New"
    /\ ticks = 0
    /\ sinceLeft = -1
    /\ groundJump = FALSE
    /\ airJumps = 0
    /\ EngineIdle

---------------------------------------------------------------------------
(* Falling onto the single-tile platform (TestHighSpeedCollision,           *)
(* TestExtremeSpeedCollision, TestConsistentLanding)                        *)

FallXs == {64, 80}
FallYs == {0, 10, 20, 50, 80, 100, 120, 127}
FallVs == {2, 5, 8, 10, 15, 20, 25, 40, 100, 500, 1000, 1500, 2000}

InitFall ==
    \E x \in FallXs, y \in FallYs, v \in FallVs :
        InitWith(PlatformLevel,
                 [SetLevel(NewPlayer(Px(x), Px(y))) EXCEPT !.VelocityY = Px(v)],
                 Dt60, NoBox)

NextFall == Tick

SpecFall == InitFall /\ [][NextFall]_vars

\* the resting position of the player's top edge on the platform
LandingY == PlatformTop - Px(32)

C2_LandingInvariance ==
    p.OnGround => Abs(p.Y - LandingY) <= Px(1)

\* C2 witness: a fall has ended in a landing (after a tick the player is on the
\* ground with its fall stopped) at a Y strictly below the nominal resting
\* position, inside the tolerance band.
C2_Witness ==
    /\ op = "Update"
    /\ p.OnGround
    /\ p.VelocityY = 0
    /\ p.Y > LandingY

---------------------------------------------------------------------------
(* Resting on the single-tile platform (TestNoSinking) *)

\* tick lengths of 120, 60 and 30 ticks per second
RestDts == {TimeScale \div 120, TimeScale \div 60, TimeScale \div 30}

\* every whole-unit X at which the player's box overlaps the platform tile
RestXs == 33..95

InitRest ==
    \E x \in RestXs, dt \in RestDts :
        InitWith(PlatformLevel, SetLevel(NewPlayer(Px(x), LandingY)), dt, NoBox)

NextRest == Tick

SpecRest == InitRest /\ [][NextRest]_vars

\* C3 (no-sink): a player placed at rest on the platform and given no input
\* is on the ground after every tick, however many there are, and its bottom
\* edge never sinks below the ground tolerance band of the platform's top.
C3_NoSink ==
    op = "Update" => /\ p.OnGround
                     /\ p.Y + p.Height <= PlatformTop + GroundTolerance

\* C3 witness: the resting state after a tick, at the very edge of the platform.
C3_Witness ==
    /\ op = "Update"
    /\ p.OnGround
    /\ p.X = Px(95)
    /\ p.Y = LandingY
    /\ p.WasOnGroundPhysics

---------------------------------------------------------------------------
(* Direct contact queries (TestDebugOverlapCalculation, TestOneWayPlatform) *)

\* a single solid tile (3,7): world (96,224)-(128,256)
SolidTileLevel == SetTile(NewLevel, 3, 7, TileSolid)
\* a single one-way tile (1,1): world (32,32)-(64,64)
OneWayLevel == SetTile(NewLevel, 1, 1, TileOneWay)

Box(x, y, w, h) == [X |-> x, Y |-> y, Width |-> w, Height |-> h]

\* 32x32 boxes around the top edge of the solid tile, at every whole unit
EdgeBoxes == {Box(Px(x), Px(y), Px(32), Px(32)) : x \in 60..130, y \in 190..195}

\* 32x4 and 32x32 boxes around the one-way tile, above, inside, below and beside it
OneWayXs == {Px(0), Scale \div 2, Px(1), Px(16), Px(31), Px(31) + Scale \div 2, Px(32),
             Px(48), Px(63), Px(63) + Scale \div 2, Px(64)}
OneWayBoxes == {Box(x, Px(y), Px(32), Px(h)) : x \in OneWayXs, y \in (-4)..70, h \in {4, 32}}

InitQuery ==
    \E ts \in {SolidTileLevel, OneWayLevel}, b \in EdgeBoxes \cup OneWayBoxes :
        InitWith(ts, NewPlayer(0, 0), Dt60, b)

NextQuery == Query

SpecQuery == InitQuery /\ [][NextQuery]_vars

\* the horizontal overlap of the box with the tile at grid column tileX
BoxOverlapX(tileX) == getOverlapX(box.X, box.Width, tileX * TilePx, TilePx)

\* the box's bottom edge is within the ground tolerance of the top of a tile in grid row tileY
BoxInBand(tileY) ==
    /\ box.Y + box.Height >= tileY * TilePx
    /\ box.Y + box.Height <= tileY * TilePx + GroundTolerance

\* C4 (edge overlap threshold): a 32-wide box whose bottom is within the ground
\* tolerance of the single solid tile (3,7) is on-ground if and only if its
\* horizontal overlap with the tile is at least half its width.
C4_EdgeOverlapThreshold ==
    (op = "CheckCollision" /\ tiles = SolidTileLevel /\ box \in EdgeBoxes /\ BoxInBand(7))
        => (result.OnGround <=> 2 * BoxOverlapX(3) >= box.Width)

C6_OneWayPassable ==
    (op = "CheckCollision" /\ tiles = OneWayLevel /\ ~BoxInBand(1))
        => (~result.CollisionX /\ ~result.CollisionY)

---------------------------------------------------------------------------
(* Walking off a two-tile platform (TestCoyoteTime, TestCoyoteTimeExpires) *)

\* solid tiles (2,7) and (3,7): world (64,224)-(128,256)
CoyoteLevel == SetTile(SetTile(NewLevel, 2, 7, TileSolid), 3, 7, TileSolid)

\* starting X: two ticks of walking from either edge of the platform, and mid-platform
CoyoteXs == {35, 80, 126}

InitCoyote ==
    \E x \in CoyoteXs :
        InitWith(CoyoteLevel, SetLevel(NewPlayer(Px(x), Px(192))), Dt60, NoBox)

NextCoyote ==
    \/ CountedTick
    \/ DoMoveLeft
    \/ DoMoveRight
    \/ DoJump

SpecCoyote == InitCoyote /\ [][NextCoyote]_vars

\* C7 (ground-leniency window): for an airborne player that left the ground
\* without jumping, a Jump succeeds (VelocityY becomes negative) while the tick
\* time accumulated since it left, the leaving tick included, is below
\* CoyoteTime, and fails (VelocityY unchanged) once that time exceeds it.
C7_GroundLeniency ==
    [][(op' = "Jump" /\ ~p.OnGround /\ sinceLeft >= 0)
          => /\ sinceLeft < p.CoyoteTime => p'.VelocityY < 0
             /\ sinceLeft > p.CoyoteTime => p'.VelocityY = p.VelocityY]_vars

\* a Jump issued after the window has elapsed has been refused
C7_Expired ==
    /\ op = "Jump"
    /\ sinceLeft > p.CoyoteTime
    /\ ~p.IsJumping
    /\ p.VelocityY > 0

\* C7 witness: a Jump has succeeded in the air, out of the leniency window.
C7_Witness ==
    /\ op = "Jump"
    /\ p.IsJumping
    /\ p.VelocityY = -p.JumpSpeed
    /\ ~groundJump
    /\ p.Y > Px(192)

\* C8 (a jump never arms the timer): from a successful Jump off the ground
\* until the player is next on the ground after a tick, CoyoteTimer is 0.
C8_JumpNeverArms ==
    groundJump => p.CoyoteTimer = 0

\* C8 witness: three ticks after a Jump off the ground, still airborne.
C8_Witness ==
    /\ groundJump
    /\ op = "Update"
    /\ ~p.OnGround
    /\ ~p.WasOnGroundPhysics
    /\ p.IsJumping
    /\ ticks >= 4

---------------------------------------------------------------------------
(* Every command of the player, between ticks, near the platform's edge *)

MaxCmdTicks == 2

CmdXs == {126}

InitCmd ==
    \E x \in CmdXs :
        InitWith(CoyoteLevel, SetLevel(NewPlayer(Px(x), Px(192))), Dt60, NoBox)

CmdTick ==
    /\ ticks < MaxCmdTicks
    /\ TickBody
    /\ ticks' = ticks + 1

NextCmd ==
    \/ CmdTick
    \/ DoMoveLeft
    \/ DoMoveRight
    \/ DoJump
    \/ DoStartClimbing
    \/ DoStopClimbing
    \/ DoClimbUp
    \/ DoClimbDown
    \/ DoTakeDamage

SpecCmd == InitCmd /\ [][NextCmd]_vars

\* C9 (Jump guard and effect): a Jump succeeds exactly when the player is on
\* the ground or its CoyoteTimer is positive, and it is not damaged; a
\* successful Jump sets VelocityY to -JumpSpeed, IsJumping to true, OnGround to
\* false and CoyoteTimer to 0 and nothing else; a refused Jump changes nothing.
C9_JumpGuard ==
    [][op' = "Jump"
          => IF (p.OnGround \/ p.CoyoteTimer > 0) /\ ~p.IsDamaged
             THEN p' = [p EXCEPT !.VelocityY = -p.JumpSpeed, !.IsJumping = TRUE,
                                 !.OnGround = FALSE, !.CoyoteTimer = 0]
             ELSE p' = p]_vars

\* C9 witness: a Jump taken in the air on a running coyote timer has consumed it.
C9_Witness ==
    /\ op = "Jump"
    /\ p.IsJumping
    /\ ~groundJump
    /\ p.CoyoteTimer = 0
    /\ p.VelocityY = -p.JumpSpeed
    /\ ticks = 2

\* C10 as stated: while the player is damaged every command, StopClimbing and
\* TakeDamage included, leaves all of its fields unchanged.
C10_AllCommandsNoOp ==
    [][(p.IsDamaged /\ op' \in Commands) => p' = p]_vars

\* C10 (commands while damaged): while the player is damaged, MoveLeft,
\* MoveRight, Jump, StartClimbing, ClimbUp, ClimbDown and TakeDamage leave all
\* of its fields unchanged; StopClimbing still clears IsClimbing and sets
\* Gravity to 500, and changes nothing else.
C10_DamagedCommands ==
    [][(p.IsDamaged /\ op' \in Commands)
          => IF op' = "StopClimbing"
             THEN p' = [p EXCEPT !.IsClimbing = FALSE, !.Gravity = Px(500)]
             ELSE p' = p]_vars

\* C10 witness: a damaged, climbing player has been sent MoveLeft.
C10_Witness ==
    /\ op = "MoveLeft"
    /\ p.IsDamaged
    /\ p.IsClimbing
    /\ p.Gravity = 0
    /\ p.VelocityX = 0

---------------------------------------------------------------------------
(* Standing in a hazard: the floor of the coyote tests with a spike tile on it *)

\* spike tile (3,6), world (96,192)-(128,224), on the solid tiles (2,7) and (3,7)
HazardLevel == SetTile(CoyoteLevel, 3, 6, TileSpike)

\* ticks of the hazard scenario: two damage windows at 60 ticks per second
MaxHazardTicks == 125

\* standing clear of the spike, half inside it, and wholly inside it
HazardXs == {64, 80, 96}

HazardDts == {TimeScale \div 60, TimeScale \div 30}

InitHazard ==
    \E x \in HazardXs, dt \in HazardDts :
        InitWith(HazardLevel, SetLevel(NewPlayer(Px(x), Px(192))), dt, NoBox)

HazardTick ==
    /\ ticks < MaxHazardTicks
    /\ TickBody
    /\ ticks' = ticks + 1

NextHazard == HazardTick

SpecHazard == InitHazard /\ [][NextHazard]_vars

\* C11 (hazard damage once per window): a tick triggers damage (it ends with
\* DamageTimer restarted at DamageTime) only if the player was not damaged
\* before it or its remaining immunity ran out within that tick; a tick in
\* the middle of a window never triggers damage, contact or not.
C11_DamageOncePerWindow ==
    [][(op' = "Update" /\ p'.DamageTimer = p'.DamageTime)
          => (~p.IsDamaged \/ p.DamageTimer <= deltaTime)]_vars

\* C11 witness: still in the spike after a whole window, the damage has
\* been triggered a second time.
C11_Witness ==
    /\ op = "Update"
    /\ tiles = HazardLevel
    /\ p.IsDamaged
    /\ p.DamageTimer = p.DamageTime
    /\ ticks * deltaTime > p.DamageTime

---------------------------------------------------------------------------
(* Walking off the four-tile platform (TestPlayerFallsOffPlatform) *)

\* solid tiles (2,5) to (5,5): world (64,160)-(192,192)
WalkLevel ==
    SetTile(SetTile(SetTile(SetTile(NewLevel, 2, 5, TileSolid), 3, 5, TileSolid),
                    4, 5, TileSolid), 5, 5, TileSolid)

\* ticks of continuous rightward movement
WalkTicks == 40

\* ticks without input that follow
MaxFallTicks == 40

\* the left end of the platform, and the start of the test, 64 units from its right end
WalkXs == {64, 128}

\* the box variable keeps the player's starting box
InitWalk ==
    \E x \in WalkXs :
        InitWith(WalkLevel, SetLevel(NewPlayer(Px(x), Px(128))), Dt60,
                 Box(Px(x), Px(128), Px(32), Px(32)))

\* Player.Update(deltaTime) on the player q0 that the commands of the frame left
TickAfter(q0) ==
    /\ p' = Update(tiles, q0, deltaTime)
    /\ op' = "Update"
    /\ sinceLeft' = IF p'.OnGround THEN -1
                    ELSE IF p.OnGround THEN deltaTime
                    ELSE IF sinceLeft >= 0 THEN sinceLeft + deltaTime
                    ELSE -1
    /\ groundJump' = (groundJump /\ ~p'.OnGround)
    /\ airJumps' = IF p'.OnGround THEN 0 ELSE airJumps
    /\ ticks' = ticks + 1
    /\ UNCHANGED <<tiles, deltaTime, box, result, engineVars>>

\* the update that establishes the ground state
EstablishTick ==
    /\ ticks = 0
    /\ TickAfter(p)

\* one frame of the walking loop: MoveRight, then Update
WalkTick ==
    /\ ticks >= 1
    /\ ticks <= WalkTicks
    /\ TickAfter(MoveRight(p))

\* one frame of the loop without input
FallTick ==
    /\ ticks > WalkTicks
    /\ ticks <= WalkTicks + MaxFallTicks
    /\ TickAfter(p)

NextWalk ==
    \/ EstablishTick
    \/ WalkTick
    \/ FallTick

SpecWalk == InitWalk /\ [][NextWalk]_vars

\* the walk of WalkTicks frames is over
Walked == ticks = 1 + WalkTicks
\* the frames without input are over too
WalkedAndLeft == ticks = 1 + WalkTicks + MaxFallTicks

\* C12 as stated: from (64,128), the player is at X >= 192 after the walk, and
\* at Y > 192 with positive vertical velocity after the further ticks.
C12_FromPlatformStart ==
    box.X = Px(64)
        => /\ Walked => p.X >= Px(192)
           /\ WalkedAndLeft => (p.Y > Px(192) /\ p.VelocityY > 0)

\* C12 (walk off and fall): from (128,128), 64 units from the platform's right
\* end, the player is at X >= 192 (to a thousandth) after 40 frames of
\* MoveRight and Update, and at Y > 192 with positive vertical velocity after
\* the further ticks without input.
C12_WalkOffAndFall ==
    box.X = Px(128)
        => /\ Walked => p.X >= Px(192) - 1
           /\ WalkedAndLeft => (p.Y > Px(192) /\ p.VelocityY > 0)

\* C12 witness: the player of the test has fallen below the platform.
C12_Witness ==
    /\ box.X = Px(128)
    /\ WalkedAndLeft
    /\ op = "Update"
    /\ ~p.OnGround
    /\ p.X >= Px(192)
    /\ p.Y > Px(192)
    /\ p.VelocityY > 0

---------------------------------------------------------------------------
(* The swept resolver by itself, around the single-tile platform *)

\* clear starting boxes: above the tile (aligned and half over it), below it,
\* and in its row to the left and to the right of it
SweptStarts ==
    {Box(Px(x), Px(y), Px(32), Px(32)) : x \in {64, 80}, y \in {50, 100, 120, 128}}
    \cup {Box(Px(x), Px(y), Px(32), Px(32)) : x \in {64, 80}, y \in {192, 200, 240}}
    \cup {Box(Px(x), Px(y), Px(32), Px(32)) : x \in {0, 20, 32, 96, 110, 140}, y \in {150, 160, 170}}

\* displacements along one axis, up to several tiles
SweptDeltas == {Px(d) : d \in {5, 10, 30, 33, 50, 64, 70, 100, 150, 200}}

InitSwept ==
    \E b \in SweptStarts :
        InitWith(PlatformLevel, SetLevel(NewPlayer(b.X, b.Y)), Dt60, b)

\* performSweptMovement from the starting box by (deltaX, deltaY)
Sweep(deltaX, deltaY) ==
    /\ op = "New"
    /\ p' = performSweptMovement(tiles, p, p.X, p.Y, deltaX, deltaY)
    /\ op' = "performSweptMovement"
    /\ UNCHANGED <<tiles, deltaTime, box, result, ticks, sinceLeft, groundJump, airJumps, engineVars>>

SweepRight == \E d \in SweptDeltas : Sweep(d, 0)
SweepLeft == \E d \in SweptDeltas : Sweep(-d, 0)
SweepDown == \E d \in SweptDeltas : Sweep(0, d)
SweepUp == \E d \in SweptDeltas : Sweep(0, -d)

NextSwept ==
    \/ SweepRight
    \/ SweepLeft
    \/ SweepDown
    \/ SweepUp

SpecSwept == InitSwept /\ [][NextSwept]_vars

\* the platform tile (2,5) in world coordinates
PlatformBounds == getTileBounds(2, 5)

\* the starting box shares columns, resp. rows, with the platform tile
StartInColumns == box.X < PlatformBounds.X + PlatformBounds.Width /\ box.X + box.Width > PlatformBounds.X
StartInRows == box.Y < PlatformBounds.Y + PlatformBounds.Height /\ box.Y + box.Height > PlatformBounds.Y

\* C13 (no passing through solid geometry): whatever the displacement, a box
\* that starts clear of the platform tile on one side of it, in its columns or
\* its rows, is on the same side of it after the swept movement, its leading
\* edge at most the contact tolerance past the tile's near edge.
C13_NeverThroughSolid ==
    op = "performSweptMovement"
        => /\ (StartInColumns /\ box.Y + box.Height <= PlatformBounds.Y)
                 => p.Y + p.Height <= PlatformBounds.Y + GroundTolerance
           /\ (StartInColumns /\ box.Y >= PlatformBounds.Y + PlatformBounds.Height)
                 => p.Y >= PlatformBounds.Y + PlatformBounds.Height - GroundTolerance
           /\ (StartInRows /\ box.X + box.Width <= PlatformBounds.X)
                 => p.X + p.Width <= PlatformBounds.X + GroundTolerance
           /\ (StartInRows /\ box.X >= PlatformBounds.X + PlatformBounds.Width)
                 => p.X >= PlatformBounds.X + PlatformBounds.Width - GroundTolerance

---------------------------------------------------------------------------
(* Tiles and boxes at and beyond the borders of the grid (TestSetAndGetTile) *)

\* grid coordinates just outside and just inside each border
BorderCoords == {-1, 0, LevelWidth - 1, LevelWidth}

\* world coordinates of boxes outside, across and inside the borders
BorderPositions == {Px(-40), Px(-16), Px(0), Px(300), Px(320)}

BorderBoxes == {Box(x, y, Px(32), Px(32)) : x \in BorderPositions, y \in BorderPositions}

InitBorder == InitWith(NewLevel, NewPlayer(0, 0), Dt60, NoBox)

\* Level.SetTile(x, y, tileType); the box variable keeps the world box of the cell (x, y)
PlaceTile ==
    \E x \in BorderCoords, y \in BorderCoords, tileType \in {TileSolid, TileSpike} :
        /\ tiles' = SetTile(tiles, x, y, tileType)
        /\ box' = Box(x * TilePx, y * TilePx, TilePx, TilePx)
        /\ result' = NoCollision
        /\ op' = "SetTile"
        /\ UNCHANGED <<p, deltaTime, ticks, sinceLeft, groundJump, airJumps, engineVars>>

\* Level.CheckCollision on a box at the border
QueryAt ==
    \E b \in BorderBoxes :
        /\ box' = b
        /\ result' = CheckCollision(tiles, b.X, b.Y, b.Width, b.Height)
        /\ op' = "CheckCollision"
        /\ UNCHANGED <<tiles, p, deltaTime, ticks, sinceLeft, groundJump, airJumps, engineVars>>

NextBorder ==
    \/ PlaceTile
    \/ QueryAt

SpecBorder == InitBorder /\ [][NextBorder]_vars

\* the grid coordinate (x, y) is outside the grid
OutsideGrid(x, y) == x < 0 \/ x >= LevelWidth \/ y < 0 \/ y >= LevelHeight

\* the box is wholly outside the grid's world bounds, out of reach of its tiles
BoxOutsideGrid(b) ==
    \/ b.X + b.Width <= 0
    \/ b.X >= LevelWidth * TilePx
    \/ b.Y + b.Height < 0
    \/ b.Y >= LevelHeight * TilePx

\* C14 (out-of-grid lookups): whatever tiles have been set, a lookup by grid
\* coordinate or by world coordinate outside the grid yields an Empty tile, a
\* contact query on a box wholly outside the grid reports no contact at all,
\* no query meets an out-of-range index, and SetTile on a cell outside the
\* grid leaves the tiles unchanged.
C14_OutOfGridIsEmpty ==
    /\ [](\A x \in BorderCoords, y \in BorderCoords :
             OutsideGrid(x, y)
                 => /\ GetTile(tiles, x, y) = NewTile(TileEmpty)
                    /\ GetTileAtWorldPos(tiles, x * TilePx + Px(5), y * TilePx + Px(5))
                           = NewTile(TileEmpty))
    /\ []((op = "CheckCollision" /\ BoxOutsideGrid(box)) => result = NoCollision)
    /\ [](\A c \in DOMAIN tiles : tiles[c] # IndexOutOfRange /\ ~OutsideGrid(c[1], c[2]))
    /\ [][(op' = "SetTile" /\ OutsideGrid(box'.X \div TilePx, box'.Y \div TilePx))
              => tiles' = tiles]_vars

\* C14 witness: with solid tiles set in two opposite corners of the grid, a box
\* beyond the far corner has been queried and found free.
C14_Witness ==
    /\ op = "CheckCollision"
    /\ GetTile(tiles, 0, 0).Type = TileSolid
    /\ GetTile(tiles, LevelWidth - 1, LevelHeight - 1).Type = TileSolid
    /\ box = Box(Px(320), Px(320), Px(32), Px(32))
    /\ result = NoCollision

---------------------------------------------------------------------------
(* Contact queries interleaved with ticks and commands *)

\* ticks of the scenario
MaxProbeTicks == 3

\* boxes beside, on, at the edge of and inside the platform of the coyote tests
ProbeBoxes == {Box(Px(x), Px(y), Px(32), Px(32)) : x \in {40, 80, 126}, y \in {180, 192, 224}}

InitProbe ==
    \E ts \in {CoyoteLevel, HazardLevel} :
        InitWith(ts, SetLevel(NewPlayer(Px(126), Px(192))), Dt60, NoBox)

\* variant: a query that answers from the previous query's result when that found contact
ProbeCached ==
    \E b \in ProbeBoxes :
        /\ box' = b
        /\ result' = IF result.Collided THEN result
                     ELSE CheckCollision(tiles, b.X, b.Y, b.Width, b.Height)
        /\ op' = "CheckCollision"
        /\ UNCHANGED <<tiles, p, deltaTime, ticks, sinceLeft, groundJump, airJumps, engineVars>>

\* Level.CheckCollision on one of the boxes
Probe ==
    \E b \in ProbeBoxes :
        /\ box' = b
        /\ result' = CheckCollision(tiles, b.X, b.Y, b.Width, b.Height)
        /\ op' = "CheckCollision"
        /\ UNCHANGED <<tiles, p, deltaTime, ticks, sinceLeft, groundJump, airJumps, engineVars>>

ProbeTick ==
    /\ ticks < MaxProbeTicks
    /\ TickBody
    /\ ticks' = ticks + 1

NextProbe ==
    \/ Probe
    \/ ProbeTick
    \/ DoMoveRight
    \/ DoJump
    \/ DoStartClimbing
    \/ DoTakeDamage

SpecProbe == InitProbe /\ [][NextProbe]_vars

---------------------------------------------------------------------------
(* Contact queries on tiles of every type (TestCollisionDetection,          *)
(* TestClimbableSurface, TestDangerousTile)                                 *)

\* the tile types that NewTile gives a behaviour
PlacedTypes == TileTypes \ {TileEmpty}

\* one tile at (3,7), world (96,224)-(128,256), alone or with a neighbour at (4,7)
ContactLevels ==
    {SetTile(NewLevel, 3, 7, a) : a \in PlacedTypes}
        \cup {SetTile(SetTile(NewLevel, 3, 7, a), 4, 7, b) : a \in PlacedTypes, b \in PlacedTypes}

\* left edges: beside the tile, across either of its edges by half a unit and by whole units, inside it
ContactXs == {Px(60), Px(64), Px(64) + Scale \div 2, Px(65), Px(80), Px(96), Px(112),
              Px(127), Px(127) + Scale \div 2, Px(128), Px(144), Px(160), Px(170)}

\* bottom edges: above the band, through it by half units, inside the tile, below it
ContactBottoms == {Px(200), Px(223), Px(223) + Scale \div 2, Px(224), Px(224) + Scale \div 2,
                   Px(225), Px(225) + Scale \div 2, Px(226), Px(226) + Scale \div 2, Px(227),
                   Px(240), Px(256), Px(257), Px(290)}

ContactBoxes ==
    {Box(x, b - h, w, h) : x \in ContactXs, b \in ContactBottoms,
                           w \in {0, Px(32)}, h \in {0, Px(32)}}

InitContact ==
    \E ts \in ContactLevels, b \in ContactBoxes :
        InitWith(ts, NewPlayer(0, 0), Dt60, b)

NextContact == Query

SpecContact == InitContact /\ [][NextContact]_vars

\* a tile that stops movement
Blocking(t) == IsSolid(t) \/ IsOneWay(t)

\* the box and the tile at cell c share a part of the X axis
BoxOverTile(c) ==
    /\ box.X < (c[1] + 1) * TilePx
    /\ box.X + box.Width > c[1] * TilePx

\* C16 (ground band): for a box of positive size, CheckCollision reports
\* OnGround exactly when some blocking tile is overlapped horizontally by the
\* box and has the box's bottom edge within the ground tolerance at or below
\* its top edge; the box standing exactly on the tile's top is one such case.
C16_GroundBand ==
    (op = "CheckCollision" /\ box.Width > 0 /\ box.Height > 0)
        => (result.OnGround
              <=> \E c \in DOMAIN tiles :
                      Blocking(tiles[c]) /\ BoxOverTile(c) /\ BoxInBand(c[2]))

\* the box and the tile at cell c overlap, the way rectanglesOverlap has it
BoxOverlaps(c) ==
    rectanglesOverlap(box.X, box.Y, box.Width, box.Height,
                      c[1] * TilePx, c[2] * TilePx, TilePx, TilePx)

\* the column of cell c is within leftTile..rightTile of the box
BoxReaches(c) == box.X + box.Width - Px(1) >= c[1] * TilePx

\* the grid without its spikes
WithoutSpikes(ts) == [c \in {d \in DOMAIN ts : ~IsDangerous(ts[d])} |-> ts[c]]

Degenerate == box.Width = 0 \/ box.Height = 0

\* the box is inside the tile at cell c or stands within the band of its top
BoxContacts(c) == BoxOverlaps(c) \/ (BoxOverTile(c) /\ BoxInBand(c[2]))

---------------------------------------------------------------------------
(* Landing (TestCoyoteTimeResetOnGround) *)

\* C19 (reset on landing): after every Update that leaves the player OnGround
\* with VelocityY >= 0, CoyoteTimer is 0.
C19_ResetOnLanding ==
    (op = "Update" /\ p.OnGround /\ p.VelocityY >= 0) => p.CoyoteTimer = 0

\* C19 witness: the player that walked off the platform's left edge in two
\* ticks (timer armed in the second) and turned back is on the platform again
\* after the third, moving right, with the timer at 0.
C19_Witness ==
    /\ op = "Update"
    /\ ticks = 3
    /\ p.OnGround
    /\ p.VelocityY >= 0
    /\ p.VelocityX > 0
    /\ p.X < Px(34)
    /\ p.WasOnGroundPhysics
    /\ p.CoyoteTimer = 0

---------------------------------------------------------------------------
(* The damage window (TestPlayer_Damage) *)

\* ticks of the scenario: a whole window at 60 ticks per second, and some more
MaxDamageTicks == 64

\* the frame time of the game, and the two tick lengths of the test
DamageDts == {TimeScale \div 60, TimeScale \div 2, TimeScale}

\* the player of the test, without a level, and the player standing in and beside the spike
InitDamage ==
    \/ \E dt \in DamageDts :
           InitWith(NewLevel, NewPlayer(Px(100), Px(200)), dt, NoBox)
    \/ \E x \in {64, 96} :
           InitWith(HazardLevel, SetLevel(NewPlayer(Px(x), Px(192))), Dt60, NoBox)

DamageTick ==
    /\ ticks < MaxDamageTicks
    /\ TickBody
    /\ ticks' = ticks + 1

\* the next Update is called with another tick length
Retime ==
    /\ p.level = FALSE
    /\ \E dt \in DamageDts \ {deltaTime} : deltaTime' = dt
    /\ op' = "Retime"
    /\ UNCHANGED <<tiles, p, box, result, ticks, sinceLeft, groundJump, airJumps, engineVars>>

NextDamage ==
    \/ DamageTick
    \/ DoTakeDamage
    \/ Retime

SpecDamage == InitDamage /\ [][NextDamage]_vars

\* C20 (damage window): between operations IsDamaged is true exactly when
\* DamageTimer > 0; an Update of a damaged player takes the tick's length off
\* DamageTimer and leaves IsDamaged set exactly when more than that was left,
\* clearing it on the tick that brings the timer to zero or below and on no
\* earlier one; the one other outcome is a hazard hurting the player again in
\* the tick in which the window ran out, which starts a new window.
C20_DamageWindow ==
    /\ [](p.IsDamaged <=> p.DamageTimer > 0)
    /\ [][(op' = "Update" /\ p.IsDamaged)
             => \/ /\ p'.DamageTimer = p.DamageTimer - deltaTime
                   /\ p'.IsDamaged <=> p.DamageTimer > deltaTime
                \/ /\ p.DamageTimer <= deltaTime
                   /\ p'.IsDamaged
                   /\ p'.DamageTimer = p'.DamageTime]_vars

\* C20 witness: the window of the test has run out in a tick longer than what
\* was left of it: the timer is below zero and the player no longer damaged.
C20_Witness ==
    /\ op = "Update"
    /\ ~p.IsDamaged
    /\ p.DamageTimer < 0
    /\ ticks >= 2

---------------------------------------------------------------------------
(* The state manager driven through its API (TestStateManager_Callbacks,    *)
(* TestStateManager_TransitionProgress, TestStateManager_MemoryLeaks)       *)

\* the states asked for; StateTransition is entered and left by the manager only
TargetStates == {StateMenu, StatePlaying}

\* immediate, and the durations 0.5 and 1.0 of the tests
Durations == {0, TimeScale \div 2, TimeScale}

\* the tick lengths 0.25 and 1.0 of the tests
StateDeltas == {TimeScale \div 4, TimeScale}

\* the registrations made: <<state, callback>>
EnterRegistrations == {<<StateMenu, 1>>, <<StateMenu, 2>>, <<StatePlaying, 1>>}
ExitRegistrations == {<<StateLoading, 1>>, <<StateMenu, 1>>, <<StateTransition, 1>>}
UpdateRegistrations == {<<StateMenu, 1>>, <<StateTransition, 1>>}

InitState == InitWith(NewLevel, NewPlayer(0, 0), Dt60, NoBox)

\* a StateManager operation that gave r, called with arguments a
StateOp(name, a, r) ==
    /\ sm' = r.sm
    /\ callbackLog' = r.calls
    /\ args' = a
    /\ op' = name
    /\ UNCHANGED <<worldVars, am, threads>>

DoTransitionTo ==
    \E s \in TargetStates, d \in Durations :
        StateOp("TransitionTo", <<s, d>>, TransitionTo(sm, s, d))

DoSetState ==
    \E s \in TargetStates : StateOp("SetState", <<s>>, SetState(sm, s))

DoStateManagerUpdate ==
    \E dt \in StateDeltas : StateOp("StateManagerUpdate", <<dt>>, StateManagerUpdate(sm, dt))

DoRegisterOnEnter ==
    \E r \in EnterRegistrations :
        StateOp("RegisterOnEnter", r, [sm |-> RegisterOnEnter(sm, r[1], r[2]), calls |-> <<>>])

DoRegisterOnExit ==
    \E r \in ExitRegistrations :
        StateOp("RegisterOnExit", r, [sm |-> RegisterOnExit(sm, r[1], r[2]), calls |-> <<>>])

DoRegisterOnUpdate ==
    \E r \in UpdateRegistrations :
        StateOp("RegisterOnUpdate", r, [sm |-> RegisterOnUpdate(sm, r[1], r[2]), calls |-> <<>>])

NextState ==
    \/ DoTransitionTo
    \/ DoSetState
    \/ DoStateManagerUpdate
    \/ DoRegisterOnEnter
    \/ DoRegisterOnExit
    \/ DoRegisterOnUpdate

SpecState == InitState /\ [][NextState]_vars

\* the step completes a state change: the manager arrives in a state other than StateTransition
Completes ==
    /\ sm'.currentState # sm.currentState
    /\ sm'.currentState # StateTransition

\* one call record
Call(event, state, callback, current) ==
    [event |-> event, state |-> state, callback |-> callback, current |-> current]

\* C21 (callback order): a step that completes a state change runs the exit
\* callback registered for the previous state first, while the manager is
\* still in the state it was in before the step (not the new one), then the
\* enter callback registered for the new state, with the new state current;
\* every Update then runs the update callback registered for the state that
\* is current at the end of it; and nothing else is run.
C21_CallbackOrder ==
    [][LET exit == IF Completes /\ sm'.previousState \in DOMAIN sm.onExitCallbacks
                   THEN <<Call("exit", sm'.previousState,
                               sm.onExitCallbacks[sm'.previousState], sm.currentState)>>
                   ELSE <<>>
           enter == IF Completes /\ sm'.currentState \in DOMAIN sm.onEnterCallbacks
                    THEN <<Call("enter", sm'.currentState,
                                sm.onEnterCallbacks[sm'.currentState], sm'.currentState)>>
                    ELSE <<>>
           update == IF op' = "StateManagerUpdate"
                        /\ sm'.currentState \in DOMAIN sm.onUpdateCallbacks
                     THEN <<Call("update", sm'.currentState,
                                 sm.onUpdateCallbacks[sm'.currentState], sm'.currentState)>>
                     ELSE <<>>
       IN op' \in {"TransitionTo", "SetState", "StateManagerUpdate"}
              => callbackLog' = exit \o enter \o update]_vars

\* C21 witness: an Update has completed the timed transition from Loading to
\* Menu and run the three callbacks: exit of Loading during StateTransition,
\* enter of Menu and update of Menu in Menu.
C21_Witness ==
    /\ op = "StateManagerUpdate"
    /\ sm.currentState = StateMenu
    /\ sm.previousState = StateLoading
    /\ Len(callbackLog) = 3
    /\ callbackLog[1] = Call("exit", StateLoading, 1, StateTransition)
    /\ callbackLog[2].event = "enter" /\ callbackLog[2].current = StateMenu
    /\ callbackLog[3].event = "update" /\ callbackLog[3].current = StateMenu

\* C22 (timed transition): TransitionTo(s, d) with d > 0 and s not the
\* current state leaves the manager in StateTransition, transitioning to s
\* for d, with progress 0; while transitioning the current state is
\* StateTransition, never the target, and the progress is the accumulated
\* time over d, below 1; an Update adds its tick to the accumulated time,
\* and the first one that brings it to d or more makes the target current,
\* ends the transition and leaves the progress reading 1.0.
C22_TimedTransition ==
    /\ [][(op' = "TransitionTo" /\ args'[2] > 0 /\ args'[1] # sm.currentState)
             => /\ sm'.currentState = StateTransition
                /\ IsTransitioning(sm')
                /\ sm'.targetState = args'[1]
                /\ sm'.maxTransitionTime = args'[2]
                /\ sm'.transitionTime = 0
                /\ GetTransitionProgress(sm') = 0]_vars
    /\ [](IsTransitioning(sm)
             => /\ sm.currentState = StateTransition
                /\ sm.targetState # sm.currentState
                /\ sm.transitionTime < sm.maxTransitionTime
                /\ GetTransitionProgress(sm) < Scale
                /\ GetTransitionProgress(sm) * sm.maxTransitionTime <= sm.transitionTime * Scale
                /\ (GetTransitionProgress(sm) + 1) * sm.maxTransitionTime > sm.transitionTime * Scale)
    /\ [][(op' = "StateManagerUpdate" /\ IsTransitioning(sm))
             => IF sm.transitionTime + args'[1] >= sm.maxTransitionTime
                THEN /\ sm'.currentState = sm.targetState
                     /\ ~IsTransitioning(sm')
                     /\ GetTransitionProgress(sm') = Scale
                ELSE /\ IsTransitioning(sm')
                     /\ sm'.transitionTime = sm.transitionTime + args'[1]
                     /\ sm'.targetState = sm.targetState
                     /\ sm'.maxTransitionTime = sm.maxTransitionTime]_vars

\* C22 witness: the one-second transition from Menu to Playing of
\* TestStateManager_TransitionProgress has been completed by an Update of
\* 0.25, which ran the enter callback of Playing.
C22_Witness ==
    /\ op = "StateManagerUpdate"
    /\ callbackLog = <<Call("enter", StatePlaying, 1, StatePlaying)>>
    /\ args = <<TimeScale \div 4>>
    /\ sm.currentState = StatePlaying
    /\ sm.previousState = StateMenu
    /\ sm.maxTransitionTime = TimeScale
    /\ ~IsTransitioning(sm)
    /\ GetTransitionProgress(sm) = Scale

\* the callback maps of the manager
Registry(s) == <<s.onEnterCallbacks, s.onExitCallbacks, s.onUpdateCallbacks>>

\* the map m with the entry for state set to callback and nothing else changed
Replaced(m, n, state, callback) ==
    /\ DOMAIN n = DOMAIN m \cup {state}
    /\ n[state] = callback
    /\ \A other \in DOMAIN m \ {state} : n[other] = m[other]

\* the calls of the log for one event
CallsOf(event) == {i \in 1..Len(callbackLog) : callbackLog[i].event = event}

\* C23 (one replaceable callback per state and event): a registration for a
\* state and an event sets the entry of that state in that event's map to
\* the callback given, whatever was there, and changes nothing else; no
\* other operation changes the maps; and a step that enters a state runs the
\* callback then in the map for it exactly once, and no other enter callback
\* (none if no callback is registered for the state).
C23_LastRegistrationWins ==
    /\ [][/\ op' = "RegisterOnEnter"
             => /\ Replaced(sm.onEnterCallbacks, sm'.onEnterCallbacks, args'[1], args'[2])
                /\ sm' = [sm EXCEPT !.onEnterCallbacks = sm'.onEnterCallbacks]
          /\ op' = "RegisterOnExit"
             => /\ Replaced(sm.onExitCallbacks, sm'.onExitCallbacks, args'[1], args'[2])
                /\ sm' = [sm EXCEPT !.onExitCallbacks = sm'.onExitCallbacks]
          /\ op' = "RegisterOnUpdate"
             => /\ Replaced(sm.onUpdateCallbacks, sm'.onUpdateCallbacks, args'[1], args'[2])
                /\ sm' = [sm EXCEPT !.onUpdateCallbacks = sm'.onUpdateCallbacks]
          /\ op' \in {"TransitionTo", "SetState", "StateManagerUpdate"}
             => Registry(sm') = Registry(sm)]_vars
    /\ [](\A i \in CallsOf("enter") :
             /\ CallsOf("enter") = {i}
             /\ callbackLog[i].state = sm.currentState
             /\ callbackLog[i].callback = sm.onEnterCallbacks[sm.currentState])
    /\ [][(Completes /\ sm'.currentState \in DOMAIN sm.onEnterCallbacks)
             => \E i \in 1..Len(callbackLog') :
                    callbackLog'[i] = Call("enter", sm'.currentState,
                                           sm.onEnterCallbacks[sm'.currentState],
                                           sm'.currentState)]_vars

\* C23 witness: Menu has been entered with callback 2 registered for it, the
\* second of the two callbacks registered for Menu, and callback 2 alone ran.
C23_Witness ==
    /\ op = "SetState"
    /\ sm.currentState = StateMenu
    /\ callbackLog = <<Call("enter", StateMenu, 2, StateMenu)>>
    /\ StateMenu \in DOMAIN sm.onEnterCallbacks
    /\ sm.onEnterCallbacks[StateMenu] = 2

\* C24 (same-state transition): TransitionTo or SetState naming the state
\* that is current changes nothing in the manager (current and previous
\* state, transition fields, callback maps), runs no callback, and leaves
\* the manager not transitioning.
C24_SameStateNoOp ==
    [][(op' \in {"TransitionTo", "SetState"} /\ args'[1] = sm.currentState)
          => /\ sm' = sm
             /\ callbackLog' = <<>>
             /\ ~IsTransitioning(sm')
             /\ sm'.currentState = sm.currentState
             /\ sm'.previousState = sm.previousState]_vars

\* C24 witness: TransitionTo(StateMenu, 0.5) has been called in Menu, with an
\* enter callback registered for Menu (TestStateManager_SameStateTransition).
C24_Witness ==
    /\ op = "TransitionTo"
    /\ args = <<StateMenu, TimeScale \div 2>>
    /\ sm.currentState = StateMenu
    /\ ~IsTransitioning(sm)
    /\ StateMenu \in DOMAIN sm.onEnterCallbacks
    /\ callbackLog = <<>>

---------------------------------------------------------------------------
(* Goroutines loading images through one AssetManager (TestConcurrentAccess) *)

\* goroutines started by the test
NumGoroutines == 3
Goroutines == 1..NumGoroutines

\* files of the asset directory, and a path with no file
AssetFiles == {"test.png", "player.png"}
AssetPaths == AssetFiles \cup {"missing.png"}

\* the return value of a call that ends with a non-nil error (images are numbered from 1)
LoadError == -1

\* a goroutine about to call LoadImage(path)
Starting(path) == [pc |-> "RLock", path |-> path, ebitenImg |-> 0, ret |-> 0]

InitAssets ==
    /\ tiles = NewLevel
    /\ p = NewPlayer(0, 0)
    /\ deltaTime = Dt60
    /\ box = NoBox
    /\ result = NoCollision
    /\ op = "New"
    /\ ticks = 0
    /\ sinceLeft = -1
    /\ groundJump = FALSE
    /\ airJumps = 0
    /\ sm = NewStateManager(StateLoading)
    /\ callbackLog = <<>>
    /\ args = <<>>
    /\ am = NewAssetManager
    /\ \E paths \in [Goroutines -> AssetPaths] :
           threads = [t \in Goroutines |-> Starting(paths[t])]

\* a step of goroutine t inside LoadImage
LoadStep(t, a, th) ==
    /\ am' = a
    /\ threads' = [threads EXCEPT ![t] = th]
    /\ op' = "LoadImage"
    /\ UNCHANGED <<worldVars, sm, callbackLog, args>>

\* am.mu.RLock()
RLock(t) ==
    /\ threads[t].pc = "RLock"
    /\ ~am.writer
    /\ LoadStep(t, [am EXCEPT !.readers = @ + 1], [threads[t] EXCEPT !.pc = "lookup"])

\* the cache lookup and am.mu.RUnlock(), with the return of a cached image
Lookup(t) ==
    /\ threads[t].pc = "lookup"
    /\ LoadStep(t, [am EXCEPT !.readers = @ - 1],
                IF threads[t].path \in DOMAIN am.images
                THEN [threads[t] EXCEPT !.pc = "done", !.ret = am.images[threads[t].path]]
                ELSE [threads[t] EXCEPT !.pc = "decode"])

\* os.Open, png.Decode and ebiten.NewImageFromImage: a new image, or the error return
Decode(t) ==
    /\ threads[t].pc = "decode"
    /\ IF threads[t].path \in AssetFiles
       THEN LoadStep(t, [am EXCEPT !.created = @ + 1],
                     [threads[t] EXCEPT !.pc = "Lock", !.ebitenImg = am.created + 1])
       ELSE LoadStep(t, am, [threads[t] EXCEPT !.pc = "done", !.ret = LoadError])

\* am.mu.Lock()
Lock(t) ==
    /\ threads[t].pc = "Lock"
    /\ ~am.writer
    /\ am.readers = 0
    /\ LoadStep(t, [am EXCEPT !.writer = TRUE], [threads[t] EXCEPT !.pc = "store"])

\* am.images[path] = ebitenImg, am.mu.Unlock() and the return
Store(t) ==
    /\ threads[t].pc = "store"
    /\ LoadStep(t, [am EXCEPT !.images = (threads[t].path :> threads[t].ebitenImg) @@ @,
                              !.writer = FALSE],
                [threads[t] EXCEPT !.pc = "done", !.ret = threads[t].ebitenImg])

NextAssets ==
    \E t \in Goroutines :
        \/ RLock(t)
        \/ Lookup(t)
        \/ Decode(t)
        \/ Lock(t)
        \/ Store(t)

SpecAssets == InitAssets /\ [][NextAssets]_vars

\* the goroutines that called LoadImage(path)
Loaders(path) == {t \in Goroutines : threads[t].path = path}

\* C25 (concurrent loads): once every goroutine has returned, for each file
\* that was asked for every call has succeeded, the cache has an entry for
\* the path, and the image was loaded and inserted once only: one image was
\* created for the path and every caller got that image; and an insert never
\* finds an entry for its path already there (check and update are atomic).
C25_ConcurrentLoadOnce ==
    /\ (\A t \in Goroutines : threads[t].pc = "done")
          => /\ \A path \in AssetFiles :
                    Loaders(path) # {}
                        => /\ \A t \in Loaders(path) : threads[t].ret # LoadError
                           /\ path \in DOMAIN am.images
                           /\ \A t \in Loaders(path) : threads[t].ret = am.images[path]
             /\ am.created = Cardinality({path \in AssetFiles : Loaders(path) # {}})
             /\ GetLoadedImageCount(am) = am.created
    /\ \A t \in Goroutines :
           threads[t].pc = "store" => threads[t].path \notin DOMAIN am.images


---------------------------------------------------------------------------
(* Coming to rest past the right end of the two-tile platform             *)

\* bound on the Player.Update calls of the scenario
MaxLedgeTicks == 60

\* starting X, in thousandths: one frame of MoveRight carries the player 8
\* units, to rest on the platform's last unit, just past its end, or well past
LedgeXs == {Px(119), Px(120) + 100, Px(120) + 200, Px(120) + 300, Px(120) + 500, Px(122)}

InitLedge ==
    \E x \in LedgeXs :
        InitWith(CoyoteLevel, SetLevel(NewPlayer(x, Px(192))), Dt60, NoBox)

\* the update that establishes the ground state
LedgeSettle ==
    /\ ticks = 0
    /\ TickAfter(p)

\* one frame with the right key down: MoveRight, then Update
LedgePush ==
    /\ ticks = 1
    /\ TickAfter(MoveRight(p))

\* the frames without input that follow
LedgeTick ==
    /\ ticks >= 2
    /\ ticks < MaxLedgeTicks
    /\ TickAfter(p)

NextLedge ==
    \/ LedgeSettle
    \/ LedgePush
    \/ LedgeTick

SpecLedge == InitLedge /\ [][NextLedge]_vars

\* the contact query at the player's box finds no ground and no vertical collision
NoGroundBeneath(q) ==
    LET none(r) == ~r.OnGround /\ ~r.CollisionY
    IN none(CheckCollision(tiles, q.X, q.Y, q.Width, q.Height))

\* C26 (hysteresis holds for one tick only): when an Update has left the player
\* OnGround although the contact query at its position finds no ground, and the
\* query at the position after the next Update finds no ground again, that
\* Update leaves OnGround false.
C26_HysteresisOneTick ==
    [][(op = "Update" /\ op' = "Update" /\ p.OnGround /\ NoGroundBeneath(p) /\ NoGroundBeneath(p'))
          => ~p'.OnGround]_vars

---------------------------------------------------------------------------
(* The movement step of updatePhysics by itself, around the single-tile     *)
(* platform: the displacement of one tick from the player's velocity        *)

\* clear starting boxes: in the tile's row on either side of it, above it
\* (aligned and half over it), and up and to the left or right of it
ResolveStarts ==
    {Box(Px(x), Px(y), Px(32), Px(32)) : x \in {0, 20, 110, 140}, y \in {150, 160}}
    \cup {Box(Px(x), Px(y), Px(32), Px(32)) : x \in {64, 80}, y \in {100, 120}}
    \cup {Box(Px(x), Px(y), Px(32), Px(32)) : x \in {20, 110}, y \in {100, 120}}

\* displacements of one tick along an axis, none included, up to several
\* tiles and far beyond the level
ResolveDeltas == {Px(d) : d \in {-20000, -150, -70, -50, -33, -10, 0, 10, 33, 50, 70, 150, 20000}}

\* the velocity that gives the displacement at 60 ticks per second
PerSecond(delta) == delta * 60

InitResolve ==
    \E b \in ResolveStarts, dx \in ResolveDeltas, dy \in ResolveDeltas :
        InitWith(PlatformLevel,
                 [SetLevel(NewPlayer(b.X, b.Y)) EXCEPT !.VelocityX = PerSecond(dx),
                                                       !.VelocityY = PerSecond(dy)],
                 Dt60, b)

\* the movement step: the displacement from the velocity, then performSweptMovement
Resolve ==
    /\ op = "New"
    /\ p' = performSweptMovement(tiles, p, p.X, p.Y,
                                 TimesDt(p.VelocityX, deltaTime), TimesDt(p.VelocityY, deltaTime))
    /\ args' = <<TimesDt(p.VelocityX, deltaTime), TimesDt(p.VelocityY, deltaTime)>>
    /\ op' = "performSweptMovement"
    /\ UNCHANGED <<tiles, deltaTime, box, result, ticks, sinceLeft, groundJump, airJumps,
                   sm, callbackLog, am, threads>>

NextResolve == Resolve

SpecResolve == InitResolve /\ [][NextResolve]_vars

\* the movement step has been taken
Resolved == op = "performSweptMovement"
\* its displacement
ResolvedDeltaX == args[1]
ResolvedDeltaY == args[2]

\* the contact query reports a horizontal collision for the player's box at x, in its starting row
BlockedAtX(x) == CheckCollision(tiles, x, box.Y, box.Width, box.Height).CollisionX

\* the position x is the last clear one of a movement in direction dir:
\* clear itself, with a blocked position within the search tolerance ahead
LastClearX(x, dir) ==
    /\ ~BlockedAtX(x)
    /\ \E e \in 1..BinarySearchTolerance : BlockedAtX(x + dir * e)

\* C27 (last-known-clear position, leftward as well as rightward): when the
\* target of a horizontal movement is blocked, the resolved X lies between start
\* and target, is clear with a blocked position within the search tolerance
\* ahead of it, and VelocityX is 0.
C27_LastClearBothWays ==
    (Resolved /\ ResolvedDeltaX # 0 /\ BlockedAtX(box.X + ResolvedDeltaX))
        => /\ Min(box.X, box.X + ResolvedDeltaX) <= p.X
           /\ p.X <= Max(box.X, box.X + ResolvedDeltaX)
           /\ LastClearX(p.X, IF ResolvedDeltaX > 0 THEN 1 ELSE -1)
           /\ p.VelocityX = 0

\* the queries of the movement step from the player q by (deltaX, deltaY)
StepQueries(q, deltaX, deltaY) == performSweptMovementQueries(tiles, q, q.X, q.Y, deltaX, deltaY)

\* the player a movement step from q by (deltaX, deltaY) leaves
StepFrom(q, deltaX, deltaY) == performSweptMovement(tiles, q, q.X, q.Y, deltaX, deltaY)

\* C28 (one axis at a time, horizontal first): in a movement step every
\* horizontal query is made at the original Y and every vertical query at the
\* corrected X; the corrected X is the one the horizontal displacement alone
\* gives from the start, and the corrected Y the one the vertical displacement
\* alone gives from the corrected X; an axis with zero displacement makes no
\* query and keeps its position and its velocity.
C28_AxisOrder ==
    [][op' = "performSweptMovement"
          => LET holds(deltaX, deltaY, queries) ==
                     /\ \A i \in DOMAIN queries.horizontal : queries.horizontal[i][2] = p.Y
                     /\ \A i \in DOMAIN queries.vertical : queries.vertical[i][1] = p'.X
                     /\ deltaX # 0 => queries.horizontal # <<>>
                     /\ deltaY # 0 => queries.vertical # <<>>
                     /\ p'.X = StepFrom(p, deltaX, 0).X
                     /\ p'.Y = StepFrom([p EXCEPT !.X = p'.X], 0, deltaY).Y
                     /\ deltaX = 0 => /\ queries.horizontal = <<>>
                                      /\ p'.X = p.X
                                      /\ p'.VelocityX = p.VelocityX
                     /\ deltaY = 0 => /\ queries.vertical = <<>>
                                      /\ p'.Y = p.Y
                                      /\ p'.VelocityY = p.VelocityY
             IN holds(args'[1], args'[2], StepQueries(p, args'[1], args'[2]))]_vars

\* C28 witness: from up and to the left of the tile the player has moved right
\* by its whole displacement, over the tile, and has then been stopped on the
\* tile's top on its way down.
C28_Witness ==
    /\ Resolved
    /\ ResolvedDeltaX > 0
    /\ ResolvedDeltaY > 0
    /\ box.X + box.Width <= PlatformBounds.X
    /\ p.X = box.X + ResolvedDeltaX
    /\ p.X + p.Width > PlatformBounds.X
    /\ p.Y < box.Y + ResolvedDeltaY
    /\ p.Y + p.Height <= PlatformBounds.Y + GroundTolerance
    /\ p.OnGround

\* the offsets 0.0, 0.1, ... 1.0 of the forward scan
ForwardScanQueries == 11

ResolvedQueries ==
    performSweptMovementQueries(tiles, [p EXCEPT !.X = box.X, !.Y = box.Y], box.X, box.Y,
                                ResolvedDeltaX, ResolvedDeltaY)

---------------------------------------------------------------------------
(* The animation state under the commands, beside and inside the hazard    *)
(* (TestPlayer_AnimationStates)                                             *)

\* bound on the Player.Update calls of the scenario
MaxAnimTicks == 3

\* standing clear of the spike, one frame of MoveRight away from it
AnimXs == {64}

InitAnim ==
    \E x \in AnimXs :
        InitWith(HazardLevel, SetLevel(NewPlayer(Px(x), Px(192))), Dt60, NoBox)

AnimTick ==
    /\ ticks < MaxAnimTicks
    /\ TickBody
    /\ ticks' = ticks + 1

\* the test's direct call: player.IsMoving = true; player.updateAnimationState()
MovingAnimation ==
    /\ p' = updateAnimationState([p EXCEPT !.IsMoving = TRUE])
    /\ op' = "updateAnimationState"
    /\ UNCHANGED <<tiles, deltaTime, box, result, ticks, sinceLeft, groundJump, airJumps, engineVars>>

NextAnim ==
    \/ AnimTick
    \/ MovingAnimation
    \/ DoMoveRight
    \/ DoJump
    \/ DoStartClimbing
    \/ DoStopClimbing
    \/ DoClimbUp
    \/ DoTakeDamage

SpecAnim == InitAnim /\ [][NextAnim]_vars

\* the conditions of the animation states in the order of their priority, the
\* last one always true, and the state each of them selects
AnimationConditions(q) == <<q.IsDamaged, q.IsClimbing, ~q.OnGround, q.IsMoving, TRUE>>
AnimationOf(q) ==
    <<AnimationDamage, AnimationClimb,
      IF q.VelocityY < 0 THEN AnimationJump ELSE AnimationFall,
      AnimationWalk, AnimationIdle>>

\* the state of the first condition that holds
PriorityState(q) ==
    LET first == CHOOSE i \in 1..5 :
                     /\ AnimationConditions(q)[i]
                     /\ \A j \in 1..(i - 1) : ~AnimationConditions(q)[j]
    IN AnimationOf(q)[first]

\* C30 (animation state by strict priority): after every Update, and after
\* every direct updateAnimationState, the animation state is that of the
\* first condition that holds among damaged, climbing, airborne (jump when
\* VelocityY < 0, otherwise fall), moving (walk) and none (idle), whatever the
\* conditions after it are.
C30_AnimationPriority ==
    [][(op' = "Update" \/ op' = "updateAnimationState")
          => GetAnimationState(p') = PriorityState(p')]_vars

\* C30 witness: an Update has left the player damaged, climbing, airborne and
\* moving at once, and the animation state is the damage one.
C30_Witness ==
    /\ op = "Update"
    /\ p.IsDamaged
    /\ p.IsClimbing
    /\ ~p.OnGround
    /\ p.IsMoving
    /\ GetAnimationState(p) = AnimationDamage
    /\ p.AnimationController.previousState = AnimationClimb

---------------------------------------------------------------------------
(* Playing on the two-tile platform and without a level, at several tick   *)
(* lengths (TestPlayer_Physics, TestCoyoteTime)                             *)

\* bound on the Player.Update calls of the scenario
MaxPlayTicks == 4

\* tick lengths: 1/60 s, 1/24 s, and one longer than the coyote window
PlayDts == {TimeScale \div 60, TimeScale \div 24, (7 * TimeScale) \div 60}

\* the player near the platform's right end, and the player of the tests
\* without a level, above the fallback ground
PlayStarts ==
    {SetLevel(NewPlayer(Px(126), Px(192))), NewPlayer(Px(100), Px(298))}

InitPlay ==
    \E q \in PlayStarts, dt \in PlayDts : InitWith(CoyoteLevel, q, dt, NoBox)

PlayTick ==
    /\ ticks < MaxPlayTicks
    /\ TickBody
    /\ ticks' = ticks + 1

NextPlay ==
    \/ PlayTick
    \/ DoMoveLeft
    \/ DoMoveRight
    \/ DoJump
    \/ DoTakeDamage

SpecPlay == InitPlay /\ [][NextPlay]_vars

\* the vertical velocity after the gravity step of a tick of length dt
AfterGravity(q, dt) ==
    IF q.OnGround THEN q.VelocityY ELSE q.VelocityY + TimesDt(q.Gravity, dt)

\* the horizontal velocity after the friction step
AfterFriction(q) == DivT(q.VelocityX * q.Friction, Scale)

\* C31 (gravity off the ground, friction always): an Update leaves the
\* vertical velocity either stopped at 0 by a contact or at its old value plus
\* Gravity * deltaTime when the player was off the ground at the start of the
\* tick and at its old value when it was on the ground; it leaves the
\* horizontal velocity either stopped at 0 or at its old value times Friction,
\* on the ground and in the air, damaged or not.
C31_GravityAndFriction ==
    [][op' = "Update"
          => /\ p'.VelocityY # 0 => p'.VelocityY = AfterGravity(p, deltaTime)
             /\ p'.VelocityX # 0 => p'.VelocityX = AfterFriction(p)
             /\ p'.IsMoving = (Abs(AfterFriction(p)) > Px(10))]_vars

\* C31 witness: a damaged player that walked off the platform is falling, a
\* tick of gravity faster than before.
C31_Witness ==
    /\ op = "Update"
    /\ p.level
    /\ p.IsDamaged
    /\ ~p.OnGround
    /\ ~p.IsJumping
    /\ p.VelocityY > 0
    /\ p.Y > Px(192)

---------------------------------------------------------------------------
(* Climbing with the default and with a configured gravity                  *)
(* (TestPlayer_Climbing)                                                    *)

\* bound on the Player.Update calls of the scenario
MaxClimbTicks == 3

\* Player.Gravity: the value NewPlayer sets, and a lower one set on the field
ClimbGravities == {Px(500), Px(300)}

InitClimb ==
    \E g \in ClimbGravities :
        InitWith(NewLevel, [NewPlayer(Px(100), Px(200)) EXCEPT !.Gravity = g], Dt60, NoBox)

ClimbTick ==
    /\ ticks < MaxClimbTicks
    /\ TickBody
    /\ ticks' = ticks + 1

\* StartClimbing; args keeps the Gravity and the IsClimbing it found
ClimbStart ==
    /\ p' = StartClimbing(p)
    /\ args' = <<p.Gravity, p.IsClimbing>>
    /\ op' = "StartClimbing"
    /\ UNCHANGED <<tiles, deltaTime, box, result, ticks, sinceLeft, groundJump, airJumps,
                   sm, callbackLog, am, threads>>

\* StopClimbing right after StartClimbing
ClimbStop ==
    /\ op = "StartClimbing"
    /\ p' = StopClimbing(p)
    /\ op' = "StopClimbing"
    /\ UNCHANGED <<tiles, deltaTime, box, result, ticks, sinceLeft, groundJump, airJumps,
                   engineVars>>

NextClimb ==
    \/ ClimbTick
    \/ ClimbStart
    \/ ClimbStop
    \/ DoClimbUp
    \/ DoClimbDown
    \/ DoTakeDamage

SpecClimb == InitClimb /\ [][NextClimb]_vars

\* C32 (gravity restored after climbing): after StartClimbing on a player that
\* was not climbing, followed by StopClimbing, Gravity is what it was before
\* StartClimbing and IsClimbing is false.
C32_GravityRestored ==
    (op = "StopClimbing" /\ ~args[2])
        => /\ p.Gravity = args[1]
           /\ ~p.IsClimbing

\* C33 (the leniency timer stays in its window): under SpecPlay, after every
\* Update and every command and at every tick length, CoyoteTimer is at least
\* 0 and at most CoyoteTime.
C33_CoyoteTimerInWindow ==
    /\ p.CoyoteTimer >= 0
    /\ p.CoyoteTimer <= p.CoyoteTime

\* C33 witness: at 24 ticks per second the timer has been armed by walking off
\* the platform and has counted one tick down.
C33_Witness ==
    /\ op = "Update"
    /\ deltaTime = TimeScale \div 24
    /\ ~p.OnGround
    /\ ~p.IsJumping
    /\ p.CoyoteTimer = p.CoyoteTime - deltaTime
    /\ p.CoyoteTimer > 0

---------------------------------------------------------------------------
(* Walking and jumping beside a solid tile that stands on the ground        *)

\* bound on the Player.Update calls of the scenario
MaxWallTicks == 6

\* the ground across the bottom row, as the level builders lay it
RECURSIVE GroundRow(_, _)
GroundRow(ts, x) ==
    IF x >= LevelWidth THEN ts ELSE GroundRow(SetTile(ts, x, LevelHeight - 1, TileSolid), x + 1)

\* the ground and the solid tile (2,8) on it: world (64,256)-(96,288)
WallLevel == SetTile(GroundRow(NewLevel, 0), 2, LevelHeight - 2, TileSolid)

\* standing on the ground clear of the tile: to its right, touching it and a
\* few units away, and to its left
WallXs == {96, 100, 29}

InitWall ==
    \E x \in WallXs :
        InitWith(WallLevel, SetLevel(NewPlayer(Px(x), Px((LevelHeight - 2) * TileSize))),
                 Dt60, NoBox)

WallTick ==
    /\ ticks < MaxWallTicks
    /\ TickBody
    /\ ticks' = ticks + 1

NextWall ==
    \/ WallTick
    \/ DoMoveLeft
    \/ DoMoveRight
    \/ DoJump

SpecWall == InitWall /\ [][NextWall]_vars

\* the box of q is inside the solid tile at c by more than the ground
\* tolerance on both axes
EmbeddedIn(q, c) ==
    /\ IsSolid(tiles[c])
    /\ Min(q.X + q.Width, (c[1] + 1) * TilePx) - Max(q.X, c[1] * TilePx) > GroundTolerance
    /\ Min(q.Y + q.Height, (c[2] + 1) * TilePx) - Max(q.Y, c[2] * TilePx) > GroundTolerance

\* C34 (penetration-freedom): from a start clear of the solid tiles, under
\* MoveLeft, MoveRight, Jump and Update in any order, the player's box is never
\* inside a solid tile by more than the ground tolerance on both axes at once.
C34_NeverEmbedded ==
    \A c \in DOMAIN tiles : ~EmbeddedIn(p, c)


\* the box of q touches or enters the side of the solid tile at c: their
\* vertical extents share more than the ground tolerance, and the horizontal
\* ones meet
AgainstSideOf(q, c) ==
    /\ IsSolid(tiles[c])
    /\ Min(q.Y + q.Height, (c[2] + 1) * TilePx) - Max(q.Y, c[2] * TilePx) > GroundTolerance
    /\ Min(q.X + q.Width, (c[1] + 1) * TilePx) - Max(q.X, c[1] * TilePx) >= 0

AtRestAgainstWall(q) ==
    /\ q.VelocityX = 0
    /\ \E c \in DOMAIN tiles : AgainstSideOf(q, c)

\* C35 (a wall's side never blocks a jump): when a player at rest against the
\* side of a solid tile, with nothing above, has jumped, the next Update moves
\* the player up and leaves VelocityY negative.
C35_JumpBesideWall ==
    [][(/\ op = "Jump"
        /\ p.IsJumping
        /\ p.VelocityY = -p.JumpSpeed
        /\ AtRestAgainstWall(p)
        /\ op' = "Update")
           => /\ p'.Y < p.Y
              /\ p'.VelocityY < 0]_vars

---------------------------------------------------------------------------
(* Jumping, falling and landing, with and without a level                   *)

\* bound on the Player.Update calls of the scenario
MaxJumpTicks == 11

\* tick lengths: 1/60 s, and 1/12 s, at which a jump lands within the bound
JumpDts == {TimeScale \div 60, TimeScale \div 12}

\* the player mid-platform and near the platform's right end, and the player
\* without a level above the fallback ground
JumpStarts ==
    {SetLevel(NewPlayer(Px(80), Px(192))), SetLevel(NewPlayer(Px(126), Px(192))),
     NewPlayer(Px(100), Px(298))}

InitJump ==
    \E q \in JumpStarts, dt \in JumpDts : InitWith(CoyoteLevel, q, dt, NoBox)

JumpTick ==
    /\ ticks < MaxJumpTicks
    /\ TickBody
    /\ ticks' = ticks + 1

NextJump ==
    \/ JumpTick
    \/ DoJump
    \/ DoMoveRight
    \/ DoTakeDamage

SpecJump == InitJump /\ [][NextJump]_vars

\* C36 (ground and jump flags exclude each other): in every state, after every
\* Update and every command, with a level and with the fallback ground, a
\* player that is on the ground is not jumping.
C36_GroundedNotJumping ==
    p.OnGround => ~p.IsJumping

\* the player has jumped from the platform, fallen back and landed on it
C36_Witness ==
    /\ p.level
    /\ op = "Update"
    /\ ticks >= 3
    /\ p.OnGround
    /\ ~p.IsJumping
    /\ p.Y >= Px(192)
    /\ p.AnimationController.previousState = AnimationFall


\* C37 (one jump per airborne interval): from leaving the ground to the next
\* tick that finds the player on the ground, under Jump calls and Update ticks
\* in any order, at most one Jump takes effect.
C37_OneJumpPerAirborne ==
    airJumps <= 1

\* a coyote jump has been made, a tick has passed, and a further Jump call in
\* the air has changed nothing
C37_Witness ==
    /\ op = "Jump"
    /\ ~p.OnGround
    /\ airJumps = 1
    /\ ~groundJump
    /\ p.IsJumping
    /\ p.VelocityY # -p.JumpSpeed

---------------------------------------------------------------------------
(* The transition flag and the current state                                *)

TransitionToAny ==
    \E s \in GameStates, d \in Durations :
        StateOp("TransitionTo", <<s, d>>, TransitionTo(sm, s, d))

SetStateAny ==
    \E s \in GameStates : StateOp("SetState", <<s>>, SetState(sm, s))

NextTargets ==
    \/ TransitionToAny
    \/ SetStateAny
    \/ DoStateManagerUpdate

SpecTargets == InitState /\ [][NextTargets]_vars

\* C38 (flag and state agree): in every state of the StateManager, under
\* TransitionTo, SetState and Update with any targets and durations,
\* IsTransitioning() is true exactly when GetCurrentState() is StateTransition.
C38_TransitioningIffStateTransition ==
    IsTransitioning(sm) <=> (GetCurrentState(sm) = StateTransition)

\* C39 (redirected transitions): when TransitionTo or SetState is called during
\* a timed transition, the callbacks stay paired, and in particular
\* GetPreviousState() never reports StateTransition.
C39_PreviousNeverTransition ==
    GetPreviousState(sm) # StateTransition

---------------------------------------------------------------------------
(* RoboGame.Update: the input handler, the player and the state manager     *)

\* bound on the Player.Update calls of the scenario
MaxGameTicks == 3

\* the key of a frame: none, the player's controls, and the keys the state
\* callbacks of setupGameStateCallbacks read
Keys == {"None", "Left", "Right", "Space", "X", "Enter", "Escape", "M", "G", "S"}

\* InputHandler.Update for one key; the climbing keys are not among Keys
InputHandlerUpdate(q, key) ==
    IF key = "Left" THEN MoveLeft(q)
    ELSE IF key = "Right" THEN MoveRight(q)
    ELSE IF key = "Space" THEN Jump(q)
    ELSE IF key = "X" THEN TakeDamage(q)
    ELSE q

\* Game.TogglePause
TogglePause(s) ==
    IF GetCurrentState(s) = StatePlaying THEN TransitionTo(s, StatePaused, TimeScale \div 5).sm
    ELSE IF GetCurrentState(s) = StatePaused THEN TransitionTo(s, StatePlaying, TimeScale \div 5).sm
    ELSE s

\* the update callback setupGameStateCallbacks registers for the current state
stateUpdateCallback(s, key) ==
    LET to(state, duration) == TransitionTo(s, state, duration).sm
        half == TimeScale \div 2
        short == (3 * TimeScale) \div 10
        current == GetCurrentState(s)
    IN IF current = StatePlaying
       THEN IF key = "Escape" THEN TogglePause(s)
            ELSE IF key = "M" THEN to(StateMenu, half)
            ELSE IF key = "G" THEN to(StateGameOver, short)
            ELSE s
       ELSE IF current = StatePaused
       THEN IF key = "Escape" THEN TogglePause(s)
            ELSE IF key = "M" THEN to(StateMenu, half)
            ELSE s
       ELSE IF current = StateMenu
       THEN IF key = "Enter" THEN to(StatePlaying, half)
            ELSE IF key = "S" THEN to(StateSettings, short)
            ELSE s
       ELSE IF current = StateSettings
       THEN IF key = "Escape" THEN to(StateMenu, short) ELSE s
       ELSE IF current = StateGameOver
       THEN IF key = "Enter" THEN to(StatePlaying, half)
            ELSE IF key = "M" \/ key = "Escape" THEN to(StateMenu, half)
            ELSE s
       ELSE s

\* Game.Update: the state manager's Update at 1/60 s, then the callback of the
\* state it is in
GameUpdate(s, key) ==
    stateUpdateCallback(StateManagerUpdate(s, Dt60).sm, key)

\* variant: the input handler and the player are updated in every state
RoboGameUpdateAlways(ts, s, q, key, dt) ==
    [p |-> Update(ts, InputHandlerUpdate(q, key), dt), sm |-> GameUpdate(s, key)]

\* RoboGame.Update: yields the player and the state manager after the frame
RoboGameUpdate(ts, s, q, key, dt) ==
    [p |-> IF GetCurrentState(s) = StatePlaying
           THEN Update(ts, InputHandlerUpdate(q, key), dt)
           ELSE q,
     sm |-> GameUpdate(s, key)]

\* the game as LoadAssets leaves it: a level with the ground across its bottom
\* row, the player at (100, 200) connected to it, the state set to StateMenu
InitGame ==
    /\ tiles = GroundRow(NewLevel, 0)
    /\ p = SetLevel(NewPlayer(Px(100), Px(200)))
    /\ deltaTime = Dt60
    /\ box = NoBox
    /\ result = NoCollision
    /\ op = "LoadAssets"
    /\ ticks = 0
    /\ sinceLeft = -1
    /\ groundJump = FALSE
    /\ airJumps = 0
    /\ sm = SetState(NewStateManager(StateLoading), StateMenu).sm
    /\ callbackLog = <<>>
    /\ args = <<>>
    /\ am = NewAssetManager
    /\ threads = NoThreads

\* a frame; args records the key and the state the frame began in
Frame ==
    \E key \in Keys :
        LET r == RoboGameUpdate(tiles, sm, p, key, deltaTime)
        IN /\ GetCurrentState(sm) = StatePlaying => ticks < MaxGameTicks
           /\ p' = r.p
           /\ sm' = r.sm
           /\ ticks' = IF GetCurrentState(sm) = StatePlaying THEN ticks + 1 ELSE ticks
           /\ args' = <<key, GetCurrentState(sm)>>
           /\ op' = "RoboGame.Update"
           /\ UNCHANGED <<tiles, deltaTime, box, result, sinceLeft, groundJump, airJumps,
                          callbackLog, am, threads>>

NextGame == Frame

SpecGame == InitGame /\ [][NextGame]_vars

\* C40 (the simulation advances only while playing): a frame that begins in a
\* state other than StatePlaying, StatePaused and StateTransition included,
\* leaves the player as it was: position, velocity, flags and timers.
C40_FrozenUnlessPlaying ==
    [][GetCurrentState(sm) # StatePlaying => p' = p]_vars

\* a frame has passed over a falling player while the game was paused
C40_Witness ==
    /\ op = "RoboGame.Update"
    /\ args[2] = StatePaused
    /\ ticks > 0
    /\ p.VelocityY > 0
    /\ ~p.OnGround

====
